---- MODULE Spec2Model ----
(***************************************************************************)
(* Feedback tracker and notification gate of the MindHome assistant       *)
(* (assistant/feedback.py).                                                *)
(*                                                                         *)
(* Scores are Python floats in the source.  The model keeps them in exact  *)
(* hundredths (0.05 is 5, 0.5 is 50, 1.0 is 100): every delta and every    *)
(* threshold of the source is a whole number of hundredths.  The binary    *)
(* rounding of IEEE doubles (0.5 - 0.1 - 0.1 - 0.1 is 0.20000000000000004) *)
(* is outside the model.  str(new_score) / float(score) is an exact round  *)
(* trip for Python floats, so the stored value is the number itself.       *)
(* Time is in seconds.  A ledger entry is {type, delta}: its timestamp is  *)
(* written and never read by the tracker, and the list order is the time   *)
(* order.                                                                  *)
(***************************************************************************)
EXTENDS Integers, Sequences, FiniteSets, TLC

VARIABLES
    redis,                  \* self.redis: TRUE = a client, FALSE = None
    running,                \* self._running
    timeout_task,           \* self._timeout_task: "none", "sleeping", "cancelled"
    slept,                  \* seconds of the loop's asyncio.sleep(30) that have passed
    pending,                \* self._pending: id -> [event_type, sent_at]
    scores,                 \* redis keys mha:feedback:score:<event_type>
    history,                \* redis lists mha:feedback:history:<event_type>
    counters,               \* redis hashes mha:feedback:counters:<event_type>
    base_cooldown_seconds,  \* self.base_cooldown_seconds
    now,                    \* datetime.now()
    calls,                  \* per event type and kind, the feedback events run so far
    ret,                    \* the last query and what it returned
    requests,               \* record_feedback calls in flight: where each one stands
    tick,                   \* where the running _check_timeouts stands
    life,                   \* per notification id: sent, then how it was resolved
    writes,                 \* per event type: redis SET and LPUSH commands executed
    faults,                 \* storage calls that raised so far
    last_activity,          \* ActivityEngine._last_activity
    emitted,                \* the assistant.proactive messages broadcast so far
    last_notification,      \* redis keys mha:notify:<event_type>: <<>> or <<time>>
    _state,                 \* CircuitBreaker._state
    _failure_count,         \* CircuitBreaker._failure_count
    _last_failure_time,     \* CircuitBreaker._last_failure_time
    failure_threshold,      \* CircuitBreaker.failure_threshold
    recovery_timeout,       \* CircuitBreaker.recovery_timeout
    monotonic,              \* time.monotonic()
    retry,                  \* where the retry_async call in progress stands
    attempts,               \* what each call of func did in the present retry_async
    sweeps                  \* per sweep tick begun: the ids it listed, the ids
                            \* explicit feedback arrived for while it ran

\* the variables of the handlers taken one storage call at a time
stepvars == <<requests, tick, life, writes, faults>>

\* what is remembered of the sweep ticks; no handler reads it
historyvars == <<sweeps>>

\* the variables of the other components of the assistant, and the history
proactivevars == <<emitted, last_notification>>
breakervars == <<_state, _failure_count, _last_failure_time, failure_threshold,
                 recovery_timeout, monotonic, retry, attempts>>
assistantvars == <<last_activity, proactivevars, breakervars, historyvars>>

vars == <<redis, running, timeout_task, slept, pending, scores, history,
          counters, base_cooldown_seconds, now, calls, ret, stepvars,
          assistantvars>>

----------------------------------------------------------------------------
(* Bounds of the model *)

\* the clock stops here
MaxTime == 240
\* the clock advances in steps of this many seconds
TimeStep == 120
\* feedback events (explicit or timeout) in one run of Spec
MaxFeedback == 3
\* feedback events in one run of SpecDeep
MaxFeedbackDeep == 6
\* track_notification calls per event type
MaxSent == 2
\* bases drawn for the cooldown policy: -MaxBase..MaxBase and the default
MaxBase == 6
\* feedback events started (explicit or timeout) in one run of SpecSteps
MaxStepEvents == 2
\* storage calls that raise in one run of SpecSteps
MaxFaults == 1
\* limits passed to the recent-feedback read: 0..MaxLimit and the caller's 5
MaxLimit == 2
\* the clock of SpecLoop stops here
MaxLoopTime == 360
\* proactive messages broadcast in one run of SpecProactive
MaxEmitted == 2
\* failure thresholds drawn for a new circuit breaker: 1..MaxThreshold
MaxThreshold == 3
\* record_failure is not called on a breaker with this many failures counted
MaxFailureCount == 6
\* the monotonic clock stops here
MaxMonotonic == 60
\* the monotonic clock advances in steps of this many seconds
MonotonicStep == 30
\* max_retries drawn for retry_async: 1..MaxRetries
MaxRetries == 3
\* notifications sent, and feedback events, in the runs with five ids
MaxSweepSent == 5
MaxSweepEvents == 4
MaxSweepTime == 250

----------------------------------------------------------------------------
(* Constants of the source *)

\* the deltas of ignored and dismissed exchanged
FEEDBACK_DELTAS_Swapped ==
    [ignored |-> -10, dismissed |-> -5, acknowledged |-> 5,
     engaged |-> 10, thanked |-> 20]

FEEDBACK_DELTAS ==
    [ignored |-> -5, dismissed |-> -10, acknowledged |-> 5,
     engaged |-> 10, thanked |-> 20]

DEFAULT_SCORE == 50

SCORE_REDUCE == 30
\* the high urgency compared with the medium threshold
SCORE_SUPPRESS_AsReduce == SCORE_REDUCE
SCORE_SUPPRESS == 15
SCORE_NORMAL == 50
SCORE_BOOST == 70

\* yaml defaults of FeedbackTracker.__init__
AUTO_TIMEOUT_SECONDS == 120
BASE_COOLDOWN_SECONDS == 300
\* asyncio.sleep(30) of the auto-timeout loop
\* the limit _get_event_stats passes to _get_recent_feedback
RECENT_LIMIT == 5
SWEEP_SLEEP_SECONDS == 30
\* ltrim(key, 0, 49)
LTRIM_STOP == 49

----------------------------------------------------------------------------
(* Inputs *)

EventTypes == {"doorbell"}
NotificationIds == {"n1", "n2"}
\* what a caller may pass as notification_id: an id, an event type, or nothing
Identifiers == NotificationIds \cup EventTypes \cup {""}
\* the closed set of kinds plus one value outside it
FeedbackTypes == DOMAIN FEEDBACK_DELTAS \cup {"liked"}
Urgencies == {"critical", "high", "medium", "low"}
\* every redis key suffix the calls above can touch
Keys == NotificationIds \cup EventTypes
CounterNames == DOMAIN FEEDBACK_DELTAS \cup {"total_sent"}

----------------
(* Score store *)

\* min(1.0, x): the lower clamp forgotten
ClampUpperOnly(x) == IF x > 100 THEN 100 ELSE x

\* max(0.0, min(1.0, x))
Clamp(x) == IF x > 100 THEN 100 ELSE IF x < 0 THEN 0 ELSE x

\* a missing key read as 0 instead of the default
ScoreInMissingZero(sc, event_type) ==
    IF redis /\ event_type \in DOMAIN sc THEN sc[event_type] ELSE 0

\* get_score on the score keys sc: the default without a client or without a key
ScoreIn(sc, event_type) ==
    IF ~redis THEN DEFAULT_SCORE
    ELSE IF event_type \in DOMAIN sc THEN sc[event_type] ELSE DEFAULT_SCORE

get_score(event_type) == ScoreIn(scores, event_type)

\* what _update_score returns on the score keys sc
UpdateScoreResult(sc, event_type, delta) ==
    IF ~redis THEN DEFAULT_SCORE ELSE Clamp(ScoreIn(sc, event_type) + delta)

\* the new score computed and returned, never written
UpdateScoreKeysNotStored(sc, event_type, delta) == sc

\* the score keys after _update_score
UpdateScoreKeys(sc, event_type, delta) ==
    IF ~redis THEN sc
    ELSE [k \in DOMAIN sc \cup {event_type} |->
            IF k = event_type THEN UpdateScoreResult(sc, event_type, delta)
            ELSE sc[k]]

----------------------------------------------------------------------------
(* Feedback ledger and counters *)

LPush(list, entry) == <<entry>> \o list

\* redis LTRIM with 0 <= start: keeps the elements start..stop (0-based, inclusive)
LTrim(list, start, stop) ==
    SubSeq(list, start + 1, IF stop + 1 < Len(list) THEN stop + 1 ELSE Len(list))

\* redis LRANGE: indexes are 0-based and inclusive, a negative index counts
\* from the end of the list (-1 is the last element), out of range indexes
\* are cut to the list
LRange(list, start, stop) ==
    LET from == IF start < 0 THEN (IF Len(list) + start < 0 THEN 0 ELSE Len(list) + start)
                ELSE start
        to == IF stop < 0 THEN Len(list) + stop
              ELSE IF stop >= Len(list) THEN Len(list) - 1 ELSE stop
    IN IF from > to THEN <<>> ELSE SubSeq(list, from + 1, to + 1)

\* _get_recent_feedback(event_type, limit)
get_recent_feedback(event_type, limit) ==
    IF ~redis THEN <<>> ELSE LRange(history[event_type], 0, limit - 1)

\* the history lists after _store_feedback_entry
StoreFeedbackEntry(h, event_type, feedback_type, delta) ==
    IF ~redis THEN h
    ELSE [h EXCEPT ![event_type] =
            LTrim(LPush(@, [type |-> feedback_type, delta |-> delta]), 0, LTRIM_STOP)]

\* hincrby ... 2
IncrementCounterTwice(c, event_type, counter_name) ==
    IF ~redis THEN c
    ELSE [c EXCEPT ![event_type][counter_name] = @ + 2]

\* the counter hashes after _increment_counter (hincrby ... 1)
IncrementCounter(c, event_type, counter_name) ==
    IF ~redis THEN c
    ELSE [c EXCEPT ![event_type][counter_name] = @ + 1]

----------------------------------------------------------------------------
(* Cooldown policy and notification gate *)

\* int(x) of the quotient n / d: truncation toward zero
IntTrunc(n, d) == IF n >= 0 THEN n \div d ELSE -((-n) \div d)

\* round(base * 0.6) in place of int(base * 0.6)
CooldownForRounded(score, base) ==
    IF score >= SCORE_BOOST THEN IntTrunc(base * 6 + (IF base >= 0 THEN 5 ELSE -5), 10)
    ELSE IF score >= SCORE_NORMAL THEN base
    ELSE IF score >= SCORE_REDUCE THEN base * 2
    ELSE base * 5

\* the multipliers of the boost and the reduce tier exchanged
CooldownForSwapped(score, base) ==
    IF score >= SCORE_BOOST THEN base * 2
    ELSE IF score >= SCORE_NORMAL THEN base
    ELSE IF score >= SCORE_REDUCE THEN IntTrunc(base * 6, 10)
    ELSE base * 5

\* _calculate_cooldown with self.base_cooldown_seconds = base
CooldownFor(score, base) ==
    IF score >= SCORE_BOOST THEN IntTrunc(base * 6, 10)
    ELSE IF score >= SCORE_NORMAL THEN base
    ELSE IF score >= SCORE_REDUCE THEN base * 2
    ELSE base * 5

calculate_cooldown(score) == CooldownFor(score, base_cooldown_seconds)

\* should_notify below the critical check, on the score read by get_score; a
\* reason that formats the score carries it as second element
ScoreGate(score, urgency) ==
    IF urgency = "high"
    THEN IF score < SCORE_SUPPRESS
         THEN [allow |-> FALSE, reason |-> <<"score_too_low", score>>, cooldown |-> 0]
         ELSE [allow |-> TRUE, reason |-> <<"high_priority">>,
               cooldown |-> calculate_cooldown(score)]
    ELSE IF urgency = "medium"
    THEN IF score < SCORE_REDUCE
         THEN [allow |-> FALSE, reason |-> <<"score_too_low", score>>, cooldown |-> 0]
         ELSE [allow |-> TRUE, reason |-> <<"score_ok">>,
               cooldown |-> calculate_cooldown(score)]
    ELSE IF score < SCORE_NORMAL
         THEN [allow |-> FALSE,
               reason |-> <<"low_priority_score_insufficient", score>>,
               cooldown |-> 0]
         ELSE [allow |-> TRUE, reason |-> <<"score_ok">>,
               cooldown |-> calculate_cooldown(score)]

\* the critical check missing: critical falls through to the last branch
ShouldNotifyNoCritical(event_type, urgency) ==
    ScoreGate(get_score(event_type), urgency)

should_notify(event_type, urgency) ==
    IF urgency = "critical"
    THEN [allow |-> TRUE, reason |-> <<"critical_always_allowed">>, cooldown |-> 0]
    ELSE ScoreGate(get_score(event_type), urgency)

----------------------------------------------------------------------------------------------------------------------------------------
(* One feedback event on the store: score, ledger entry, counter *)

\* lines 123-132 of record_feedback and 377-381 of _check_timeouts, on the
\* store st = [scores, history, counters]
ApplyFeedback(st, event_type, feedback_type) ==
    LET delta == FEEDBACK_DELTAS[feedback_type] IN
    [scores   |-> UpdateScoreKeys(st.scores, event_type, delta),
     history  |-> StoreFeedbackEntry(st.history, event_type, feedback_type, delta),
     counters |-> IncrementCounter(st.counters, event_type, feedback_type)]

\* >= in place of >
ExpiredInclusive(pend, t) ==
    {nid \in DOMAIN pend : t - pend[nid].sent_at >= AUTO_TIMEOUT_SECONDS}

\* the ids _check_timeouts collects at time t
Expired(pend, t) ==
    {nid \in DOMAIN pend : t - pend[nid].sent_at > AUTO_TIMEOUT_SECONDS}

\* the second loop of _check_timeouts over the expired ids
RECURSIVE ResolveExpired(_, _, _)
ResolveExpired(st, pend, ids) ==
    IF ids = {} THEN st
    ELSE LET nid == CHOOSE x \in ids : TRUE IN
         ResolveExpired(ApplyFeedback(st, pend[nid].event_type, "ignored"),
                        pend, ids \ {nid})

Remove(pend, ids) == [nid \in DOMAIN pend \ ids |-> pend[nid]]

\* the feedback events run so far, over all event types and kinds
RECURSIVE SumOver(_, _)
SumOver(f, S) ==
    IF S = {} THEN 0
    ELSE LET x == CHOOSE y \in S : TRUE IN f[x] + SumOver(f, S \ {x})

CallsOn(event_type) ==
    LET c == calls[event_type] IN
    c["ignored"] + c["dismissed"] + c["acknowledged"] + c["engaged"] + c["thanked"]
TotalCalls == SumOver([k \in Keys |-> CallsOn(k)], Keys)

\* calls after the expired ids ids were resolved as ignored
CallsAfterExpiry(pend, ids) ==
    [k \in Keys |->
       [calls[k] EXCEPT !["ignored"] =
          @ + Cardinality({nid \in ids : pend[nid].event_type = k})]]

----------------------------------------------------------------------------
(* State after construction: an empty store, nothing pending, no task *)

\* no record_feedback call in flight, the sweep not inside a tick
Requests == {"r1", "r2"}

NothingInFlight ==
    /\ requests = [r \in Requests |-> [pc |-> "idle"]]
    /\ tick = [pc |-> "sleep"]
    /\ life = [nid \in NotificationIds |-> <<>>]
    /\ writes = [k \in Keys |-> [set |-> 0, lpush |-> 0]]
    /\ faults = 0

\* defaults of the CircuitBreaker dataclass
FAILURE_THRESHOLD == 5
RECOVERY_TIMEOUT == 30

\* the other components as constructed: ActivityEngine.__init__, no
\* proactive message sent yet, a CircuitBreaker with its defaults, no
\* retry_async call in progress
AssistantInit ==
    /\ last_activity = "relaxing"
    /\ emitted = <<>>
    /\ last_notification = [e \in EventTypes |-> <<>>]
    /\ _state = "closed"
    /\ _failure_count = 0
    /\ _last_failure_time = 0
    /\ failure_threshold = FAILURE_THRESHOLD
    /\ recovery_timeout = RECOVERY_TIMEOUT
    /\ monotonic = 0
    /\ retry = [pc |-> "idle"]
    /\ attempts = <<>>
    /\ sweeps = <<>>

Init ==
    /\ redis = FALSE
    /\ running = FALSE
    /\ timeout_task = "none"
    /\ slept = 0
    /\ pending = <<>>
    /\ scores = <<>>
    /\ history = [k \in Keys |-> <<>>]
    /\ counters = [k \in Keys |-> [c \in CounterNames |-> 0]]
    /\ base_cooldown_seconds = BASE_COOLDOWN_SECONDS
    /\ now = 0
    /\ calls = [k \in Keys |-> [c \in DOMAIN FEEDBACK_DELTAS |-> 0]]
    /\ ret = [op |-> "none"]
    /\ NothingInFlight
    /\ AssistantInit

----------------------------------------------------------------------------
(* Operations *)

\* main.py's lifespan: brain.initialize() runs before the first request is
\* served and brain.shutdown() after the last one
Serving == timeout_task = "sleeping"

\* initialize(redis_client): brain.py passes memory.redis, which is None when
\* the connection failed
Initialize(client) ==
    /\ timeout_task = "none"
    /\ redis' = client
    /\ running' = TRUE
    /\ timeout_task' = "sleeping"
    /\ slept' = 0
    /\ UNCHANGED <<pending, scores, history, counters, base_cooldown_seconds,
                   now, calls, ret>>

\* stop(): the flag is cleared, the task is cancelled and awaited
Stop ==
    /\ timeout_task = "sleeping"
    /\ running' = FALSE
    /\ timeout_task' = "cancelled"
    /\ UNCHANGED <<redis, slept, pending, scores, history, counters,
                   base_cooldown_seconds, now, calls, ret>>

TrackNotification(notification_id, event_type) ==
    /\ Serving
    /\ counters[event_type]["total_sent"] < MaxSent
    /\ pending' = [nid \in DOMAIN pending \cup {notification_id} |->
                     IF nid = notification_id
                     THEN [event_type |-> event_type, sent_at |-> now]
                     ELSE pending[nid]]
    /\ counters' = IncrementCounter(counters, event_type, "total_sent")
    /\ UNCHANGED <<redis, running, timeout_task, slept, scores, history,
                   base_cooldown_seconds, now, calls, ret>>

\* what track_notification logs, whether or not the id was pending
TrackNotificationLog(notification_id, event_type) ==
    [level |-> "debug", msg |-> "Notification tracked",
     notification_id |-> notification_id, event_type |-> event_type]

\* an id that is not pending resolved to no event type
ResolveEventTypeStrict(notification_id) ==
    IF notification_id \in DOMAIN pending
    THEN pending[notification_id].event_type
    ELSE ""

\* the event type record_feedback resolves notification_id to
ResolveEventType(notification_id) ==
    IF notification_id \in DOMAIN pending
    THEN pending[notification_id].event_type
    ELSE notification_id

\* the pop done before the kind is checked
PopBeforeValidate(notification_id, feedback_type) ==
    Remove(pending, {notification_id})

\* the entry read and left in the registry
PendingKept(notification_id, feedback_type) == pending

\* self._pending after record_feedback: the kind is checked before the pop
PendingAfterRecord(notification_id, feedback_type) ==
    IF feedback_type \notin DOMAIN FEEDBACK_DELTAS THEN pending
    ELSE Remove(pending, {notification_id})

\* what record_feedback returns: None, or the dict of lines 139-144
RecordFeedbackResult(notification_id, feedback_type) ==
    LET event_type == ResolveEventType(notification_id) IN
    IF feedback_type \notin DOMAIN FEEDBACK_DELTAS \/ event_type = ""
    THEN [none |-> TRUE]
    ELSE [none |-> FALSE, event_type |-> event_type,
          feedback_type |-> feedback_type,
          delta |-> FEEDBACK_DELTAS[feedback_type],
          new_score |-> UpdateScoreResult(scores, event_type,
                                          FEEDBACK_DELTAS[feedback_type])]

RecordFeedback(notification_id, feedback_type, max) ==
    LET event_type == ResolveEventType(notification_id) IN
    /\ Serving
    /\ UNCHANGED <<redis, running, timeout_task, slept, base_cooldown_seconds,
                   now, ret>>
    /\ pending' = PendingAfterRecord(notification_id, feedback_type)
    /\ IF feedback_type \notin DOMAIN FEEDBACK_DELTAS \/ event_type = ""
       THEN UNCHANGED <<scores, history, counters, calls>>
       ELSE LET st == ApplyFeedback([scores |-> scores, history |-> history,
                                     counters |-> counters],
                                    event_type, feedback_type)
            IN
            /\ TotalCalls < max
            /\ calls' = [calls EXCEPT ![event_type][feedback_type] = @ + 1]
            /\ scores' = st.scores
            /\ history' = st.history
            /\ counters' = st.counters

\* the answer of PUT /api/assistant/feedback to an identifier and a kind
submit_feedback(identifier, feedback_type) ==
    IF identifier = ""
    THEN [status |-> 400, detail |-> "notification_id oder event_type erforderlich"]
    ELSE IF RecordFeedbackResult(identifier, feedback_type).none
    THEN [status |-> 400, detail |-> "Ungueltiger feedback_type"]
    ELSE [status |-> 200, result |-> RecordFeedbackResult(identifier, feedback_type)]

\* one iteration of _auto_timeout_loop: the sleep has ended, _check_timeouts
\* runs, and the loop sleeps again
SweepTick ==
    /\ timeout_task = "sleeping"
    /\ running
    /\ slept >= SWEEP_SLEEP_SECONDS
    /\ LET expired == Expired(pending, now)
           st == ResolveExpired([scores |-> scores, history |-> history,
                                 counters |-> counters], pending, expired)
       IN
       /\ pending' = Remove(pending, expired)
       /\ scores' = st.scores
       /\ history' = st.history
       /\ counters' = st.counters
       /\ calls' = CallsAfterExpiry(pending, expired)
    /\ slept' = 0
    /\ UNCHANGED <<redis, running, timeout_task, base_cooldown_seconds, now, ret>>

\* time passes; the clock of the model starts with initialize
AdvanceTime ==
    /\ timeout_task # "none"
    /\ now + TimeStep <= MaxTime
    /\ now' = now + TimeStep
    /\ slept' = IF slept + TimeStep > SWEEP_SLEEP_SECONDS
                THEN SWEEP_SLEEP_SECONDS ELSE slept + TimeStep
    /\ UNCHANGED <<redis, running, timeout_task, pending, scores, history,
                   counters, base_cooldown_seconds, calls, ret>>

\* time passes, up to max
AdvanceTimeTo(max) ==
    /\ timeout_task # "none"
    /\ now + TimeStep <= max
    /\ now' = now + TimeStep
    /\ slept' = IF slept + TimeStep > SWEEP_SLEEP_SECONDS
                THEN SWEEP_SLEEP_SECONDS ELSE slept + TimeStep
    /\ UNCHANGED <<redis, running, timeout_task, pending, scores, history,
                   counters, base_cooldown_seconds, calls, ret>>

\* should_notify called
ShouldNotify(event_type, urgency) ==
    /\ Serving
    /\ ret' = [op |-> "should_notify", event_type |-> event_type,
               urgency |-> urgency, score |-> get_score(event_type),
               value |-> should_notify(event_type, urgency)]
    /\ UNCHANGED <<redis, running, timeout_task, slept, pending, scores,
                   history, counters, base_cooldown_seconds, now, calls>>

\* get_score called
GetScore(event_type) ==
    /\ Serving
    /\ ret' = [op |-> "get_score", event_type |-> event_type,
               value |-> get_score(event_type)]
    /\ UNCHANGED <<redis, running, timeout_task, slept, pending, scores,
                   history, counters, base_cooldown_seconds, now, calls>>

\* get_score called with a client, and redis.get raises: nothing in get_score
\* catches it
GetScoreRaises(event_type, max) ==
    /\ Serving
    /\ redis
    /\ faults < max
    /\ ret' = [op |-> "get_score", event_type |-> event_type, raised |-> TRUE]
    /\ faults' = faults + 1
    /\ UNCHANGED <<redis, running, timeout_task, slept, pending, scores,
                   history, counters, base_cooldown_seconds, now, calls,
                   requests, tick, life, writes>>

\* should_notify called with a client and an urgency below critical, and the
\* redis.get of get_score raises: nothing in should_notify catches it
ShouldNotifyRaises(event_type, urgency, max) ==
    /\ Serving
    /\ redis
    /\ urgency # "critical"
    /\ faults < max
    /\ ret' = [op |-> "should_notify", event_type |-> event_type,
               urgency |-> urgency, raised |-> TRUE]
    /\ faults' = faults + 1
    /\ UNCHANGED <<redis, running, timeout_task, slept, pending, scores,
                   history, counters, base_cooldown_seconds, now, calls,
                   requests, tick, life, writes>>

\* _calculate_cooldown called on the score of an event type, as
\* _get_event_stats does
CalculateCooldown(event_type) ==
    /\ Serving
    /\ ret' = [op |-> "calculate_cooldown", score |-> get_score(event_type),
               value |-> calculate_cooldown(get_score(event_type))]
    /\ UNCHANGED <<redis, running, timeout_task, slept, pending, scores,
                   history, counters, base_cooldown_seconds, now, calls>>

\* _get_recent_feedback called
GetRecentFeedback(event_type, limit) ==
    /\ Serving
    /\ ret' = [op |-> "get_recent_feedback", event_type |-> event_type,
               limit |-> limit, value |-> get_recent_feedback(event_type, limit)]
    /\ UNCHANGED <<redis, running, timeout_task, slept, pending, scores,
                   history, counters, base_cooldown_seconds, now, calls>>

\* the tracker under callers that track the ids nids, pass the identifiers ids
\* and the kinds kinds to record_feedback and run at most max feedback events
NextOver(nids, ids, kinds, max) ==
    \/ \E client \in BOOLEAN : Initialize(client)
         /\ UNCHANGED <<stepvars, assistantvars>>
    \/ \E nid \in nids, e \in EventTypes :
         TrackNotification(nid, e) /\ UNCHANGED <<stepvars, assistantvars>>
    \/ \E id \in ids, k \in kinds : RecordFeedback(id, k, max)
         /\ UNCHANGED <<stepvars, assistantvars>>
    \/ SweepTick /\ UNCHANGED <<stepvars, assistantvars>>
    \/ AdvanceTime /\ UNCHANGED <<stepvars, assistantvars>>

\* every kind and every sort of identifier, short runs
Next ==
    \/ NextOver(NotificationIds, {"n1", "doorbell", ""}, FeedbackTypes, MaxFeedback)
    \/ Stop /\ UNCHANGED <<stepvars, assistantvars>>

Spec == Init /\ [][Next]_vars

\* feedback by event type in two kinds and one invalid kind, long runs
DeepKinds == {"dismissed", "thanked", "liked"}
NextDeep == NextOver(NotificationIds, EventTypes, DeepKinds, MaxFeedbackDeep)

SpecDeep == Init /\ [][NextDeep]_vars

----------------------------------------------------------------------------
(* The gate and the cooldown policy on every score and a range of bases *)

Bases == (-MaxBase .. MaxBase) \cup {BASE_COOLDOWN_SECONDS}

\* an initialized tracker whose store holds any score, or none, for doorbell
InitPolicy ==
    /\ redis \in BOOLEAN
    /\ running = TRUE
    /\ timeout_task = "sleeping"
    /\ slept = 0
    /\ pending = <<>>
    /\ scores \in {<<>>} \cup {[e \in {"doorbell"} |-> s] : s \in 0 .. 100}
    /\ history = [k \in Keys |-> <<>>]
    /\ counters = [k \in Keys |-> [c \in CounterNames |-> 0]]
    /\ base_cooldown_seconds \in Bases
    /\ now = 0
    /\ calls = [k \in Keys |-> [c \in DOMAIN FEEDBACK_DELTAS |-> 0]]
    /\ ret = [op |-> "none"]
    /\ NothingInFlight
    /\ AssistantInit

NextPolicy ==
    \/ \E e \in Keys, u \in Urgencies : ShouldNotify(e, u)
         /\ UNCHANGED <<stepvars, assistantvars>>
    \/ \E e \in Keys : GetScore(e) /\ UNCHANGED <<stepvars, assistantvars>>
    \/ \E e \in Keys : CalculateCooldown(e)
         /\ UNCHANGED <<stepvars, assistantvars>>

SpecPolicy == InitPolicy /\ [][NextPolicy]_vars

----------------------------------------------------------------------------
(* The handlers one storage call at a time.  Every await of a redis       *)
(* command is a point where the event loop runs another handler, where the *)
(* command can raise, and where the sweep task can be cancelled.  Without  *)
(* a client no handler awaits anything and each one runs as one step.  A   *)
(* command that raises, or is cancelled, is taken not to have executed.    *)

\* a feedback event about to await redis GET in _update_score
Work(event_type, feedback_type) ==
    [pc |-> "get", event_type |-> event_type, feedback_type |-> feedback_type,
     current |-> 0]

StoreCalls == {"get", "set", "lpush", "ltrim", "hincrby"}

\* the entry _store_feedback_entry pushes
Entry(feedback_type) ==
    [type |-> feedback_type, delta |-> FEEDBACK_DELTAS[feedback_type]]

\* the store after the storage call the feedback event w is waiting for
StoreAfter(w) ==
    LET e == w.event_type
        st == [scores |-> scores, history |-> history, counters |-> counters]
    IN CASE w.pc = "get" -> st
         [] w.pc = "set" ->
              [st EXCEPT !.scores =
                 [k \in DOMAIN scores \cup {e} |->
                    IF k = e THEN Clamp(w.current + FEEDBACK_DELTAS[w.feedback_type])
                    ELSE scores[k]]]
         [] w.pc = "lpush" ->
              [st EXCEPT !.history[e] = LPush(@, Entry(w.feedback_type))]
         [] w.pc = "ltrim" ->
              [st EXCEPT !.history[e] = LTrim(@, 0, LTRIM_STOP)]
         [] w.pc = "hincrby" ->
              [st EXCEPT !.counters = IncrementCounter(counters, e, w.feedback_type)]

\* the feedback event w after the storage call it is waiting for
WorkAfter(w) ==
    CASE w.pc = "get" ->
           [w EXCEPT !.pc = "set", !.current = ScoreIn(scores, w.event_type)]
      [] w.pc = "set" -> [w EXCEPT !.pc = "lpush"]
      [] w.pc = "lpush" -> [w EXCEPT !.pc = "ltrim"]
      [] w.pc = "ltrim" -> [w EXCEPT !.pc = "hincrby"]
      [] w.pc = "hincrby" -> [w EXCEPT !.pc = "done"]

\* the SET and LPUSH commands executed, after the storage call of w
WritesAfter(w) ==
    IF w.pc \in {"set", "lpush"}
    THEN [writes EXCEPT ![w.event_type][w.pc] = @ + 1]
    ELSE writes

\* record_feedback calls and sweep resolutions between their first and their
\* last storage call
InFlight ==
    Cardinality({r \in Requests : requests[r].pc # "idle"})
      + (IF tick.pc \in StoreCalls THEN 1 ELSE 0)

\* record_feedback up to its first await: the kind is checked, the pending
\* entry popped, the event type resolved
BeginFeedback(r, notification_id, feedback_type, max) ==
    LET event_type == ResolveEventType(notification_id) IN
    /\ Serving
    /\ requests[r].pc = "idle"
    /\ pending' = PendingAfterRecord(notification_id, feedback_type)
    /\ life' = IF feedback_type \in DOMAIN FEEDBACK_DELTAS
                  /\ notification_id \in DOMAIN pending
               THEN [life EXCEPT ![notification_id] = Append(@, "feedback")]
               ELSE life
    /\ IF feedback_type \notin DOMAIN FEEDBACK_DELTAS \/ event_type = ""
       THEN UNCHANGED <<requests, calls>>
       ELSE /\ TotalCalls + InFlight + faults < max
            /\ IF redis
               THEN /\ requests' = [requests EXCEPT ![r] = Work(event_type, feedback_type)]
                    /\ UNCHANGED calls
               ELSE /\ calls' = [calls EXCEPT ![event_type][feedback_type] = @ + 1]
                    /\ UNCHANGED requests
    /\ UNCHANGED <<redis, running, timeout_task, slept, scores, history, counters,
                   base_cooldown_seconds, now, ret, tick, writes, faults>>

\* the storage call record_feedback call r is waiting for executes; after the
\* last one the call returns
RequestStep(r) ==
    LET w == requests[r]
        st == StoreAfter(w)
        w2 == WorkAfter(w)
    IN
    /\ w.pc \in StoreCalls
    /\ scores' = st.scores
    /\ history' = st.history
    /\ counters' = st.counters
    /\ writes' = WritesAfter(w)
    /\ IF w2.pc = "done"
       THEN /\ requests' = [requests EXCEPT ![r] = [pc |-> "idle"]]
            /\ calls' = [calls EXCEPT ![w.event_type][w.feedback_type] = @ + 1]
       ELSE /\ requests' = [requests EXCEPT ![r] = w2]
            /\ UNCHANGED calls
    /\ UNCHANGED <<redis, running, timeout_task, slept, pending,
                   base_cooldown_seconds, now, ret, tick, life, faults>>

\* the storage call record_feedback call r is waiting for raises: nothing in
\* record_feedback catches it, the call ends there
RequestFault(r, max) ==
    /\ requests[r].pc \in StoreCalls
    /\ faults < max
    /\ requests' = [requests EXCEPT ![r] = [pc |-> "idle"]]
    /\ faults' = faults + 1
    /\ UNCHANGED <<redis, running, timeout_task, slept, pending, scores, history,
                   counters, base_cooldown_seconds, now, calls, ret, tick, life,
                   writes>>

\* the orders in which _check_timeouts can find the expired ids: the dict
\* keeps the order of insertion, which is the order of sent_at
ExpiredOrders(pend, t) ==
    LET ids == Expired(pend, t)
        n == Cardinality(ids)
    IN {s \in [1 .. n -> ids] :
          /\ \A i, j \in 1 .. n : i < j => s[i] # s[j]
          /\ \A i, j \in 1 .. n :
               i < j => pend[s[i]].sent_at <= pend[s[j]].sent_at}

\* self._pending.pop(nid) without a default
PopExpired(rest) ==
    IF Head(rest) \in DOMAIN pending THEN "popped" ELSE "KeyError"

\* the for loop of _check_timeouts with the ids rest left, up to its next
\* await: at the end of the list, or on the KeyError of pop, the loop of
\* _auto_timeout_loop goes back to sleep
ResolveNext(rest) ==
    IF rest = <<>> \/ PopExpired(rest) = "KeyError"
    THEN /\ tick' = [pc |-> "sleep"]
         /\ slept' = 0
         /\ UNCHANGED <<pending, life>>
    ELSE /\ pending' = Remove(pending, {Head(rest)})
         /\ life' = [life EXCEPT ![Head(rest)] = Append(@, "timeout")]
         /\ tick' = [pc |-> "get", event_type |-> pending[Head(rest)].event_type,
                     feedback_type |-> "ignored", current |-> 0,
                     expired |-> Tail(rest)]
         /\ UNCHANGED slept

\* the sleep of the loop has ended and _check_timeouts starts
TickBegin ==
    /\ timeout_task = "sleeping"
    /\ running
    /\ tick.pc = "sleep"
    /\ slept >= SWEEP_SLEEP_SECONDS
    /\ IF redis
       THEN /\ \E order \in ExpiredOrders(pending, now) : ResolveNext(order)
            /\ UNCHANGED calls
       ELSE /\ pending' = Remove(pending, Expired(pending, now))
            /\ life' = [nid \in NotificationIds |->
                          IF nid \in Expired(pending, now)
                          THEN Append(life[nid], "timeout") ELSE life[nid]]
            /\ calls' = CallsAfterExpiry(pending, Expired(pending, now))
            /\ slept' = 0
            /\ UNCHANGED tick
    /\ UNCHANGED <<redis, running, timeout_task, scores, history, counters,
                   base_cooldown_seconds, now, ret, requests, writes, faults>>

\* the storage call _check_timeouts is waiting for executes; after the last
\* one of an id the for loop goes on
TickStep ==
    LET st == StoreAfter(tick)
        w2 == WorkAfter(tick)
    IN
    /\ tick.pc \in StoreCalls
    /\ scores' = st.scores
    /\ history' = st.history
    /\ counters' = st.counters
    /\ writes' = WritesAfter(tick)
    /\ IF w2.pc = "done"
       THEN /\ calls' = [calls EXCEPT ![tick.event_type]["ignored"] = @ + 1]
            /\ ResolveNext(tick.expired)
       ELSE /\ tick' = w2
            /\ UNCHANGED <<calls, pending, life, slept>>
    /\ UNCHANGED <<redis, running, timeout_task, base_cooldown_seconds, now, ret,
                   requests, faults>>

\* the error of the storage call ends the task
TickFaultEnds(max) ==
    /\ tick.pc \in StoreCalls
    /\ faults < max
    /\ tick' = [pc |-> "ended"]
    /\ faults' = faults + 1
    /\ UNCHANGED <<redis, running, timeout_task, slept, pending, scores, history,
                   counters, base_cooldown_seconds, now, calls, ret, requests,
                   life, writes>>

\* the storage call _check_timeouts is waiting for raises: the loop logs the
\* error and sleeps again
TickFault(max) ==
    /\ tick.pc \in StoreCalls
    /\ faults < max
    /\ tick' = [pc |-> "sleep"]
    /\ slept' = 0
    /\ faults' = faults + 1
    /\ UNCHANGED <<redis, running, timeout_task, pending, scores, history,
                   counters, base_cooldown_seconds, now, calls, ret, requests,
                   life, writes>>

\* stop() that clears the flag and cancels the task but does not wait for it
StopTaskNoAwait ==
    /\ \A r \in Requests : requests[r].pc = "idle"
    /\ Stop
    /\ UNCHANGED <<tick, requests, life, writes, faults>>

\* stop() after the server has answered its requests: the task is cancelled at
\* the await it stands at and ends
StopTask ==
    /\ \A r \in Requests : requests[r].pc = "idle"
    /\ Stop
    /\ tick' = [pc |-> "ended"]
    /\ UNCHANGED <<requests, life, writes, faults>>

\* track_notification with an id not used before
TrackFresh(notification_id, event_type) ==
    /\ life[notification_id] = <<>>
    /\ TrackNotification(notification_id, event_type)
    /\ life' = [life EXCEPT ![notification_id] = <<"sent">>]
    /\ UNCHANGED <<requests, tick, writes, faults>>

\* the tracker under callers whose record_feedback calls overlap each other and
\* the sweep, with at most faults storage calls raising
NextStepsOver(ids, kinds, max, maxfaults) ==
    \/ \E client \in BOOLEAN : Initialize(client)
         /\ UNCHANGED <<stepvars, assistantvars>>
    \/ \E nid \in NotificationIds, e \in EventTypes : TrackFresh(nid, e)
         /\ UNCHANGED assistantvars
    \/ \E r \in Requests, id \in ids, k \in kinds : BeginFeedback(r, id, k, max)
         /\ UNCHANGED assistantvars
    \/ \E r \in Requests : RequestStep(r) /\ UNCHANGED assistantvars
    \/ \E r \in Requests : RequestFault(r, maxfaults) /\ UNCHANGED assistantvars
    \/ TickBegin /\ UNCHANGED assistantvars
    \/ TickStep /\ UNCHANGED assistantvars
    \/ TickFault(maxfaults) /\ UNCHANGED assistantvars
    \/ AdvanceTime /\ UNCHANGED <<stepvars, assistantvars>>
    \/ StopTask /\ UNCHANGED assistantvars

\* feedback by notification id and by event type
StepIds == {"n1", "n2", "doorbell"}
StepKinds == {"dismissed"}
NextSteps == NextStepsOver(StepIds, StepKinds, MaxStepEvents, MaxFaults)

SpecSteps == Init /\ [][NextSteps]_vars

----------------------------------------------------------------------------
(* The ledger at its cap: a tracker with a client whose doorbell ledger    *)
(* holds n entries after n dismissed events, n around the cap              *)

InitLedger ==
    \E n \in (LTRIM_STOP - 1) .. (LTRIM_STOP + 1) :
      /\ redis = TRUE
      /\ running = TRUE
      /\ timeout_task = "sleeping"
      /\ slept = 0
      /\ pending = <<>>
      /\ scores = [e \in {"doorbell"} |-> 0]
      /\ history = [k \in Keys |->
                      IF k = "doorbell" THEN [i \in 1 .. n |-> Entry("dismissed")]
                      ELSE <<>>]
      /\ counters = [k \in Keys |-> [c \in CounterNames |->
                       IF k = "doorbell" /\ c = "dismissed" THEN n ELSE 0]]
      /\ base_cooldown_seconds = BASE_COOLDOWN_SECONDS
      /\ now = 0
      /\ calls = [k \in Keys |-> [c \in DOMAIN FEEDBACK_DELTAS |->
                    IF k = "doorbell" /\ c = "dismissed" THEN n ELSE 0]]
      /\ ret = [op |-> "none"]
      /\ requests = [r \in Requests |-> [pc |-> "idle"]]
      /\ tick = [pc |-> "sleep"]
      /\ life = [nid \in NotificationIds |-> <<>>]
      /\ writes = [k \in Keys |->
                     IF k = "doorbell" THEN [set |-> n, lpush |-> n]
                     ELSE [set |-> 0, lpush |-> 0]]
      /\ faults = 0
      /\ AssistantInit

LedgerKinds == {"dismissed", "thanked"}
\* feedback events on doorbell, the n of InitLedger included
LedgerEvents == LTRIM_STOP + 1 + MaxStepEvents

NextLedger ==
    \/ \E r \in Requests, k \in LedgerKinds :
         BeginFeedback(r, "doorbell", k, LedgerEvents) /\ UNCHANGED assistantvars
    \/ \E r \in Requests : RequestStep(r) /\ UNCHANGED assistantvars
    \/ \E r \in Requests : RequestFault(r, MaxFaults) /\ UNCHANGED assistantvars

SpecLedger == InitLedger /\ [][NextLedger]_vars

----------------------------------------------------------------------------
(* The recent-feedback read on short ledgers *)

RecentLimits == (0 .. MaxLimit) \cup {RECENT_LIMIT}

NextRecent ==
    \/ \E client \in BOOLEAN : Initialize(client)
         /\ UNCHANGED <<stepvars, assistantvars>>
    \/ \E k \in LedgerKinds :
         RecordFeedback("doorbell", k, MaxFeedback) /\ UNCHANGED <<stepvars, assistantvars>>
    \/ \E e \in EventTypes, limit \in RecentLimits :
         GetRecentFeedback(e, limit) /\ UNCHANGED <<stepvars, assistantvars>>

SpecRecent == Init /\ [][NextRecent]_vars

----------------------------------------------------------------------------
(* The decision functions on a store that can fail *)

NextOutage ==
    \/ \E client \in BOOLEAN : Initialize(client)
         /\ UNCHANGED <<stepvars, assistantvars>>
    \/ \E k \in LedgerKinds :
         RecordFeedback("doorbell", k, MaxFeedback) /\ UNCHANGED <<stepvars, assistantvars>>
    \/ \E e \in EventTypes : GetScore(e)
         /\ UNCHANGED <<stepvars, assistantvars>>
    \/ \E e \in EventTypes, u \in Urgencies : ShouldNotify(e, u)
         /\ UNCHANGED <<stepvars, assistantvars>>
    \/ \E e \in EventTypes : GetScoreRaises(e, MaxFaults)
         /\ UNCHANGED assistantvars
    \/ \E e \in EventTypes, u \in Urgencies : ShouldNotifyRaises(e, u, MaxFaults)
         /\ UNCHANGED assistantvars

SpecOutage == Init /\ [][NextOutage]_vars

----------------------------------------------------------------------------
(* The auto-timeout loop over several ticks, with one request at a time *)

NextLoop ==
    \/ \E client \in BOOLEAN : Initialize(client)
         /\ UNCHANGED <<stepvars, assistantvars>>
    \/ \E nid \in NotificationIds, e \in EventTypes : TrackFresh(nid, e)
         /\ UNCHANGED assistantvars
    \/ \E id \in NotificationIds : BeginFeedback("r1", id, "dismissed", MaxStepEvents)
         /\ UNCHANGED assistantvars
    \/ RequestStep("r1") /\ UNCHANGED assistantvars
    \/ TickBegin /\ UNCHANGED assistantvars
    \/ TickStep /\ UNCHANGED assistantvars
    \/ TickFault(MaxFaults) /\ UNCHANGED assistantvars
    \/ AdvanceTimeTo(MaxLoopTime) /\ UNCHANGED <<stepvars, assistantvars>>
    \/ StopTask /\ UNCHANGED assistantvars

SpecLoop == Init /\ [][NextLoop]_vars

----------------------------------------------------------------------------
(* Activity engine and silence matrix (assistant/activity.py).             *)
(* Confidences are in hundredths.  A sensor snapshot is a function from    *)
(* the entity ids it lists to their states; <<>> is the empty snapshot.    *)
(* _last_detection is written and never read, and is left out.             *)

Activities ==
    {"sleeping", "in_call", "watching", "focused", "guests", "relaxing", "away"}
Deliveries == {"tts_loud", "tts_quiet", "led_blink", "suppress"}

SILENCE_MATRIX ==
    [sleeping |-> [critical |-> "tts_loud", high |-> "led_blink",
                   medium |-> "suppress", low |-> "suppress"],
     in_call  |-> [critical |-> "led_blink", high |-> "led_blink",
                   medium |-> "suppress", low |-> "suppress"],
     watching |-> [critical |-> "tts_loud", high |-> "led_blink",
                   medium |-> "suppress", low |-> "suppress"],
     focused  |-> [critical |-> "tts_loud", high |-> "tts_quiet",
                   medium |-> "tts_quiet", low |-> "suppress"],
     guests   |-> [critical |-> "tts_loud", high |-> "tts_quiet",
                   medium |-> "tts_quiet", low |-> "suppress"],
     relaxing |-> [critical |-> "tts_loud", high |-> "tts_loud",
                   medium |-> "tts_loud", low |-> "tts_quiet"],
     away     |-> [critical |-> "tts_loud", high |-> "suppress",
                   medium |-> "suppress", low |-> "suppress"]]

\* thresholds of ActivityEngine.__init__
NIGHT_START == 22
NIGHT_END == 7
GUEST_PERSON_COUNT == 2
\* confidence of the answer without sensor data
UNAVAILABLE_CONFIDENCE == 30

\* the entities of the modelled home, by the prefix of their id
PersonEntities == {"person.anna", "person.ben"}
MediaPlayerEntities == {"media_player.tv"}
LightEntities == {"light.flur"}
\* entity lists of ActivityEngine.__init__
mic_sensors == {"binary_sensor.mic_active", "binary_sensor.microphone"}
bed_sensors == {"binary_sensor.bed_occupancy", "binary_sensor.bett"}
pc_sensors == {"binary_sensor.pc_active", "binary_sensor.computer", "switch.pc"}
\* the sensors the modelled home has
SensorEntities ==
    {"binary_sensor.mic_active", "binary_sensor.bed_occupancy", "switch.pc"}

\* hours of the day drawn for datetime.now().hour: the first of the night,
\* the first of the day
Hours == {NIGHT_START, NIGHT_END}

\* the snapshots drawn: every person, player and sensor listed with one of
\* its states, the light listed or not
Snapshots ==
    UNION {{p @@ m @@ s @@ l :
              p \in [PersonEntities -> {"home", "not_home"}],
              m \in [MediaPlayerEntities -> {"playing", "idle"}],
              s \in [SensorEntities -> {"on", "off"}],
              l \in [lights -> {"on", "off"}]} :
           lights \in SUBSET LightEntities}

_check_away(states) ==
    ~ \E id \in DOMAIN states \cap PersonEntities : states[id] = "home"

_check_media_playing(states) ==
    \E id \in DOMAIN states \cap MediaPlayerEntities : states[id] = "playing"

_check_in_call(states) ==
    \E id \in DOMAIN states \cap mic_sensors : states[id] = "on"

_check_lights_off(states) ==
    /\ DOMAIN states \cap LightEntities # {}
    /\ \A id \in DOMAIN states \cap LightEntities : states[id] # "on"

_check_sleeping(states, hour) ==
    /\ hour >= NIGHT_START \/ hour < NIGHT_END
    /\ \/ \E id \in DOMAIN states \cap bed_sensors : states[id] = "on"
       \/ _check_lights_off(states)

_check_pc_active(states) ==
    \E id \in DOMAIN states \cap pc_sensors : states[id] \in {"on", "active"}

_check_guests(states) ==
    Cardinality({id \in DOMAIN states \cap PersonEntities : states[id] = "home"})
        >= GUEST_PERSON_COUNT

\* the signals dict detect_activity collects
CollectSignals(states, hour) ==
    [sleeping      |-> _check_sleeping(states, hour),
     in_call       |-> _check_in_call(states),
     guests        |-> _check_guests(states),
     away          |-> _check_away(states),
     media_playing |-> _check_media_playing(states),
     pc_active     |-> _check_pc_active(states),
     lights_off    |-> _check_lights_off(states)]

\* the classifier with the call rule tried before the sleep rule
_classifyCallFirst(signals) ==
    IF signals.away THEN [activity |-> "away", confidence |-> 95]
    ELSE IF signals.in_call THEN [activity |-> "in_call", confidence |-> 95]
    ELSE IF signals.sleeping
         THEN [activity |-> "sleeping",
               confidence |-> IF signals.lights_off THEN 90 ELSE 70]
    ELSE IF signals.media_playing THEN [activity |-> "watching", confidence |-> 85]
    ELSE IF signals.guests THEN [activity |-> "guests", confidence |-> 80]
    ELSE IF signals.pc_active THEN [activity |-> "focused", confidence |-> 70]
    ELSE [activity |-> "relaxing", confidence |-> 60]

_classify(signals) ==
    IF signals.away THEN [activity |-> "away", confidence |-> 95]
    ELSE IF signals.sleeping
         THEN [activity |-> "sleeping",
               confidence |-> IF signals.lights_off THEN 90 ELSE 70]
    ELSE IF signals.in_call THEN [activity |-> "in_call", confidence |-> 95]
    ELSE IF signals.media_playing THEN [activity |-> "watching", confidence |-> 85]
    ELSE IF signals.guests THEN [activity |-> "guests", confidence |-> 80]
    ELSE IF signals.pc_active THEN [activity |-> "focused", confidence |-> 70]
    ELSE [activity |-> "relaxing", confidence |-> 60]

\* detect_activity that answers the default activity without sensor data
detect_activityDefault(states, hour) ==
    IF states = <<>>
    THEN [signals |-> [ha_unavailable |-> TRUE], activity |-> "relaxing",
          confidence |-> UNAVAILABLE_CONFIDENCE]
    ELSE LET signals == CollectSignals(states, hour)
             classified == _classify(signals)
         IN  [signals |-> signals,
              activity |-> classified.activity,
              confidence |-> classified.confidence]

\* what detect_activity returns
detect_activity(states, hour) ==
    IF states = <<>>
    THEN [signals |-> [ha_unavailable |-> TRUE], activity |-> last_activity,
          confidence |-> UNAVAILABLE_CONFIDENCE]
    ELSE LET signals == CollectSignals(states, hour)
             classified == _classify(signals)
         IN  [signals |-> signals,
              activity |-> classified.activity,
              confidence |-> classified.confidence]

\* the lookup that has no fallback row
get_delivery_methodNoFallback(activity, urgency) ==
    LET activity_row == IF activity \in DOMAIN SILENCE_MATRIX
                        THEN SILENCE_MATRIX[activity]
                        ELSE [critical |-> "suppress", high |-> "suppress",
                              medium |-> "suppress", low |-> "suppress"]
    IN  IF urgency \in DOMAIN activity_row THEN activity_row[urgency]
        ELSE "tts_loud"

get_delivery_method(activity, urgency) ==
    LET activity_row == IF activity \in DOMAIN SILENCE_MATRIX
                        THEN SILENCE_MATRIX[activity]
                        ELSE SILENCE_MATRIX["relaxing"]
    IN  IF urgency \in DOMAIN activity_row THEN activity_row[urgency]
        ELSE "tts_loud"

\* the tracker and the step variables, which the engine never touches
trackervars == <<redis, running, timeout_task, slept, pending, scores, history,
                 counters, base_cooldown_seconds, now, calls, stepvars,
                 historyvars>>

\* _classify called on a signals dict
Classify(signals) ==
    /\ ret' = [op |-> "_classify", value |-> _classify(signals),
               signals |-> signals]
    /\ UNCHANGED <<trackervars, assistantvars>>

\* detect_activity with the snapshot the hub returned (<<>> when it returned
\* nothing or could not be reached) at the given hour
DetectActivity(states, hour) ==
    \E detection \in {detect_activity(states, hour)} :
    /\ ret' = [op |-> "detect_activity", value |-> detection,
               empty |-> states = <<>>]
    /\ IF states = <<>>
       THEN UNCHANGED last_activity
       ELSE last_activity' = detection.activity
    /\ UNCHANGED <<trackervars, proactivevars, breakervars>>

\* get_delivery_method called
GetDeliveryMethod(activity, urgency) ==
    /\ ret' = [urgency |-> urgency, op |-> "get_delivery_method",
               value |-> get_delivery_method(activity, urgency),
               activity |-> activity]
    /\ UNCHANGED <<trackervars, assistantvars>>

\* GET /api/assistant/activity/delivery?urgency=...: should_deliver
ShouldDeliver(urgency, states, hour) ==
    \E detection \in {detect_activity(states, hour)} :
    \E delivery \in {get_delivery_method(detection.activity, urgency)} :
    /\ ret' = [urgency |-> urgency, op |-> "should_deliver",
               value |-> [signals |-> detection.signals,
                          activity |-> detection.activity,
                          confidence |-> detection.confidence,
                          delivery |-> delivery,
                          suppress |-> delivery = "suppress"],
               empty |-> states = <<>>]
    /\ IF states = <<>>
       THEN UNCHANGED last_activity
       ELSE last_activity' = detection.activity
    /\ UNCHANGED <<trackervars, proactivevars, breakervars>>

\* activities and urgencies passed to the lookup: the known ones and one
\* string that is none of them
ActivityInputs == Activities \cup {"cooking"}
UrgencyInputs == Urgencies \cup {"urgent"}

NextActivity ==
    \/ \E away, media_playing, in_call, sleeping \in BOOLEAN :
       \E pc_active, guests, lights_off \in BOOLEAN :
         Classify([sleeping |-> sleeping, in_call |-> in_call,
                   guests |-> guests, away |-> away,
                   media_playing |-> media_playing, pc_active |-> pc_active,
                   lights_off |-> lights_off])
    \/ \E states \in Snapshots \cup {<<>>}, hour \in Hours :
         DetectActivity(states, hour)

SpecActivity == Init /\ [][NextActivity]_vars

\* the delivery decision: the lookup alone and behind the endpoint
NextDelivery ==
    \/ \E a \in ActivityInputs, u \in UrgencyInputs : GetDeliveryMethod(a, u)
    \/ \E u \in UrgencyInputs, states \in Snapshots \cup {<<>>}, hour \in Hours :
         ShouldDeliver(u, states, hour)

SpecDelivery == Init /\ [][NextDelivery]_vars

----------------------------------------------------------------------------
(* Proactive manager (assistant/proactive.py): _notify decides whether an  *)
(* event is reported and broadcasts the message.  The memory manager and    *)
(* the tracker share one redis client (brain.py), so get_feedback_score     *)
(* reads the score keys of the tracker.  The key mha:notify:<event_type>    *)
(* lives for an hour, longer than the clock of the model.                   *)

\* ProactiveManager.cooldown
PROACTIVE_COOLDOWN == 300
\* the score under which a low-urgency event is not reported
PROACTIVE_MIN_SCORE == 20
\* brain.autonomy.current_level: commands only, or more
AutonomyLevels == {1, 2}

\* MemoryManager.get_feedback_score
get_feedback_score(event_type) == ScoreIn(scores, event_type)

\* the checks of _notify before the message is generated
NotifyPasses(event_type, urgency, level, silence_scene) ==
    /\ urgency # "critical" => level >= 2
    /\ urgency \notin {"critical", "high"} =>
         \/ ~redis
         \/ last_notification[event_type] = <<>>
         \/ now - last_notification[event_type][1] >= PROACTIVE_COOLDOWN
    /\ urgency = "low" => get_feedback_score(event_type) >= PROACTIVE_MIN_SCORE
    /\ urgency # "critical" => ~silence_scene

\* _notify(event_type, urgency, data) with the autonomy level, whether a
\* silence scene is active and whether the chat call to the model answered
Notify(event_type, urgency, level, silence_scene, chat_ok, max) ==
    /\ Serving
    /\ Len(emitted) < max
    /\ IF NotifyPasses(event_type, urgency, level, silence_scene) /\ chat_ok
       THEN /\ emitted' = Append(emitted, [event_type |-> event_type,
                                           urgency |-> urgency,
                                           notification_id |-> ""])
            /\ last_notification' =
                 IF redis
                 THEN [last_notification EXCEPT ![event_type] = <<now>>]
                 ELSE last_notification
       ELSE UNCHANGED <<emitted, last_notification>>
    /\ ret' = [event_type |-> event_type, urgency |-> urgency, op |-> "_notify"]
    /\ UNCHANGED <<redis, running, timeout_task, slept, pending, scores,
                   history, counters, base_cooldown_seconds, now, calls,
                   stepvars, last_activity, breakervars, historyvars>>

NextProactive ==
    \/ \E client \in BOOLEAN : Initialize(client)
         /\ UNCHANGED <<stepvars, assistantvars>>
    \/ \E e \in EventTypes, u \in Urgencies, level \in AutonomyLevels :
       \E silence_scene, chat_ok \in BOOLEAN :
         Notify(e, u, level, silence_scene, chat_ok, MaxEmitted)
    \/ \E e \in EventTypes : RecordFeedback(e, "dismissed", MaxFeedbackDeep)
         /\ UNCHANGED <<stepvars, assistantvars>>
    \/ AdvanceTimeTo(MaxLoopTime) /\ UNCHANGED <<stepvars, assistantvars>>

SpecProactive == Init /\ [][NextProactive]_vars

----------------------------------------------------------------------------
(* Circuit breaker and retry_async (assistant/resilience.py).  Times are   *)
(* whole seconds of time.monotonic().  retry_async is taken one call of    *)
(* func at a time; between two calls it sleeps, and other users of the     *)
(* breaker may run.                                                        *)

\* recovery timeouts a breaker is built with in the repository
RecoveryTimeouts == {30, 60}

\* everything but the breaker and the retry_async call
nonbreakervars == <<trackervars, ret, last_activity, proactivevars>>

\* CircuitBreaker(name, failure_threshold, recovery_timeout)
NewCircuitBreaker(threshold, timeout) ==
    /\ retry.pc = "idle"
    /\ failure_threshold' = threshold
    /\ recovery_timeout' = timeout
    /\ _state' = "closed"
    /\ _failure_count' = 0
    /\ _last_failure_time' = 0
    /\ ret' = [op |-> "CircuitBreaker"]
    /\ UNCHANGED <<trackervars, last_activity, proactivevars, monotonic, retry,
                   attempts>>

\* the state property: an open breaker whose recovery timeout has passed is
\* half open from the read on
StateRead ==
    IF _state = "open" /\ monotonic - _last_failure_time >= recovery_timeout
    THEN "half_open" ELSE _state

\* the is_available property, which reads state
is_available == StateRead \in {"closed", "half_open"}

\* _state after a failure that made the count exceed the threshold only
StateAfterFailureAbove(count) ==
    IF count > failure_threshold THEN "open" ELSE _state

\* _state after record_failure has counted up to count
StateAfterFailure(count) ==
    IF count >= failure_threshold THEN "open" ELSE _state

\* cb.state read
ReadState ==
    /\ _state' = StateRead
    /\ ret' = [op |-> "state", value |-> StateRead]
    /\ UNCHANGED <<trackervars, last_activity, proactivevars, _failure_count,
                   _last_failure_time, failure_threshold, recovery_timeout,
                   monotonic, retry, attempts>>

\* cb.is_available read
IsAvailable ==
    /\ _state' = StateRead
    /\ ret' = [op |-> "is_available", value |-> is_available]
    /\ UNCHANGED <<trackervars, last_activity, proactivevars, _failure_count,
                   _last_failure_time, failure_threshold, recovery_timeout,
                   monotonic, retry, attempts>>

\* cb.record_success()
RecordSuccess ==
    /\ _failure_count' = 0
    /\ _state' = "closed"
    /\ ret' = [op |-> "record_success"]
    /\ UNCHANGED <<trackervars, last_activity, proactivevars, _last_failure_time,
                   failure_threshold, recovery_timeout, monotonic, retry,
                   attempts>>

\* cb.record_failure()
RecordFailure(max) ==
    /\ _failure_count < max
    /\ _failure_count' = _failure_count + 1
    /\ _last_failure_time' = monotonic
    /\ _state' = StateAfterFailure(_failure_count + 1)
    /\ ret' = [op |-> "record_failure"]
    /\ UNCHANGED <<trackervars, last_activity, proactivevars, failure_threshold,
                   recovery_timeout, monotonic, retry, attempts>>

\* cb.reset()
Reset ==
    /\ _state' = "closed"
    /\ _failure_count' = 0
    /\ _last_failure_time' = 0
    /\ ret' = [op |-> "reset"]
    /\ UNCHANGED <<trackervars, last_activity, proactivevars, failure_threshold,
                   recovery_timeout, monotonic, retry, attempts>>

\* time.monotonic() moves on
MonotonicAdvance(max) ==
    /\ monotonic + MonotonicStep <= max
    /\ monotonic' = monotonic + MonotonicStep
    /\ UNCHANGED <<nonbreakervars, _state, _failure_count, _last_failure_time,
                   failure_threshold, recovery_timeout, retry, attempts>>

NextBreaker ==
    \/ \E threshold \in 1 .. MaxThreshold, timeout \in RecoveryTimeouts :
         NewCircuitBreaker(threshold, timeout)
    \/ ReadState
    \/ IsAvailable
    \/ RecordSuccess
    \/ RecordFailure(MaxFailureCount)
    \/ Reset
    \/ MonotonicAdvance(MaxMonotonic)

SpecBreaker == Init /\ [][NextBreaker]_vars

\* the exceptions tuple the callers pass: the types that are retried
RetryExceptions == {"ConnectionError", "TimeoutError"}
\* what one call of func does: it returns, or raises one of these types
FuncOutcomes == {"ok", "ConnectionError", "TimeoutError", "ValueError"}

\* the loop that runs while attempt <= max_retries
LastAttemptLate(attempt, max_retries) == attempt >= max_retries

\* attempt is the last index of range(max_retries)
LastAttempt(attempt, max_retries) == attempt >= max_retries - 1

\* what the call in progress returns to its caller
RetryResult(outcome) ==
    [op |-> "retry_async", max_retries |-> retry.max_retries,
     outcome |-> outcome, circuit_breaker |-> retry.circuit_breaker]

\* retry_async(func, max_retries, exceptions, circuit_breaker) up to the first
\* call of func: an unavailable breaker raises ConnectionError
RetryBegin(max_retries, circuit_breaker) ==
    /\ retry.pc = "idle"
    /\ attempts' = <<>>
    /\ _state' = IF circuit_breaker THEN StateRead ELSE _state
    /\ IF circuit_breaker /\ ~is_available
       THEN /\ ret' = [op |-> "retry_async", max_retries |-> max_retries,
                       outcome |-> <<"raised", "ConnectionError", "retry_async">>,
                       circuit_breaker |-> circuit_breaker]
            /\ UNCHANGED retry
       ELSE /\ ret' = [op |-> "retry_async", max_retries |-> max_retries,
                       outcome |-> <<"running">>,
                       circuit_breaker |-> circuit_breaker]
            /\ retry' = [pc |-> "call", attempt |-> 0,
                         max_retries |-> max_retries,
                         circuit_breaker |-> circuit_breaker]
    /\ UNCHANGED <<trackervars, last_activity, proactivevars, _failure_count,
                   _last_failure_time, failure_threshold, recovery_timeout,
                   monotonic>>

\* one call of func and what follows it up to the next await or the end
RetryAttempt(outcome, max) ==
    /\ retry.pc = "call"
    /\ attempts' = Append(attempts, outcome)
    /\ IF outcome = "ok"
       THEN /\ IF retry.circuit_breaker
               THEN _failure_count' = 0 /\ _state' = "closed"
               ELSE UNCHANGED <<_failure_count, _state>>
            /\ ret' = RetryResult(<<"returned", "ok">>)
            /\ retry' = [pc |-> "idle"]
            /\ UNCHANGED _last_failure_time
       ELSE IF outcome \in RetryExceptions
       THEN /\ retry.circuit_breaker => _failure_count < max
            /\ IF retry.circuit_breaker
               THEN /\ _failure_count' = _failure_count + 1
                    /\ _last_failure_time' = monotonic
                    /\ _state' = StateAfterFailure(_failure_count + 1)
               ELSE UNCHANGED <<_failure_count, _last_failure_time, _state>>
            /\ IF LastAttempt(retry.attempt, retry.max_retries)
               THEN /\ ret' = RetryResult(<<"raised", outcome, "func">>)
                    /\ retry' = [pc |-> "idle"]
               ELSE /\ retry' = [retry EXCEPT !.pc = "sleep"]
                    /\ UNCHANGED ret
       ELSE /\ ret' = RetryResult(<<"raised", outcome, "func">>)
            /\ retry' = [pc |-> "idle"]
            /\ UNCHANGED <<_failure_count, _last_failure_time, _state>>
    /\ UNCHANGED <<trackervars, last_activity, proactivevars, failure_threshold,
                   recovery_timeout, monotonic>>

\* the sleep between two attempts is over
RetryWake ==
    /\ retry.pc = "sleep"
    /\ retry' = [retry EXCEPT !.pc = "call", !.attempt = @ + 1]
    /\ UNCHANGED <<nonbreakervars, _state, _failure_count, _last_failure_time,
                   failure_threshold, recovery_timeout, monotonic, attempts>>

NextRetry ==
    \/ \E threshold \in 1 .. MaxThreshold :
         NewCircuitBreaker(threshold, RECOVERY_TIMEOUT)
    \/ RecordSuccess
    \/ RecordFailure(MaxFailureCount)
    \/ MonotonicAdvance(MaxMonotonic)
    \/ \E max_retries \in 1 .. MaxRetries, circuit_breaker \in BOOLEAN :
         RetryBegin(max_retries, circuit_breaker)
    \/ \E outcome \in FuncOutcomes : RetryAttempt(outcome, MaxFailureCount)
    \/ RetryWake

SpecRetry == Init /\ [][NextRetry]_vars

----------------------------------------------------------------------------
(* Sweep ticks racing with explicit feedback: a tracker with a client, five *)
(* notifications of one event type, one record_feedback call at a time, no  *)
(* storage call raising                                                     *)

\* ids are names the caller makes up: the i-th notification sent gets the i-th
SweepOrder == <<"n1", "n2", "n3", "n4", "n5">>
SweepIds == {SweepOrder[i] : i \in DOMAIN SweepOrder}
SweepKeys == SweepIds \cup EventTypes

\* the state after construction, with room for the five ids
InitSweep ==
    /\ redis = FALSE
    /\ running = FALSE
    /\ timeout_task = "none"
    /\ slept = 0
    /\ pending = <<>>
    /\ scores = <<>>
    /\ history = [k \in SweepKeys |-> <<>>]
    /\ counters = [k \in SweepKeys |-> [c \in CounterNames |-> 0]]
    /\ base_cooldown_seconds = BASE_COOLDOWN_SECONDS
    /\ now = 0
    /\ calls = [k \in SweepKeys |-> [c \in DOMAIN FEEDBACK_DELTAS |-> 0]]
    /\ ret = [op |-> "none"]
    /\ requests = [r \in Requests |-> [pc |-> "idle"]]
    /\ tick = [pc |-> "sleep"]
    /\ life = [nid \in SweepIds |-> <<>>]
    /\ writes = [k \in SweepKeys |-> [set |-> 0, lpush |-> 0]]
    /\ faults = 0
    /\ AssistantInit

\* track_notification, at most max times per event type
TrackNotificationTo(notification_id, event_type, max) ==
    /\ Serving
    /\ counters[event_type]["total_sent"] < max
    /\ pending' = [nid \in DOMAIN pending \cup {notification_id} |->
                     IF nid = notification_id
                     THEN [event_type |-> event_type, sent_at |-> now]
                     ELSE pending[nid]]
    /\ counters' = IncrementCounter(counters, event_type, "total_sent")
    /\ UNCHANGED <<redis, running, timeout_task, slept, scores, history,
                   base_cooldown_seconds, now, calls, ret>>

\* the feedback events run so far, the event types named by an id included
SweepCalls == SumOver([k \in SweepKeys |-> CallsOn(k)], SweepKeys)

\* a second passes, up to max
AdvanceSecondTo(max) ==
    /\ timeout_task # "none"
    /\ now + 1 <= max
    /\ now' = now + 1
    /\ slept' = IF slept + 1 > SWEEP_SLEEP_SECONDS
                THEN SWEEP_SLEEP_SECONDS ELSE slept + 1
    /\ UNCHANGED <<redis, running, timeout_task, pending, scores, history,
                   counters, base_cooldown_seconds, calls, ret>>

\* track_notification with the next id not used before, one a second
TrackSweep(i, event_type) ==
    /\ life[SweepOrder[i]] = <<>>
    /\ now = i - 1
    /\ i > 1 => life[SweepOrder[i - 1]] # <<>>
    /\ TrackNotificationTo(SweepOrder[i], event_type, MaxSweepSent)
    /\ life' = [life EXCEPT ![SweepOrder[i]] = <<"sent">>]
    /\ UNCHANGED <<requests, tick, writes, faults>>

\* a tick begins: the ids it lists are remembered
SweepBegin ==
    /\ TickBegin
    /\ sweeps' = Append(sweeps, [listed |-> Expired(pending, now), raced |-> {}])

\* record_feedback for notification_id begins while a tick that listed the id
\* is under way, which is remembered
SweepFeedback(notification_id, max) ==
    /\ tick.pc \in StoreCalls
    /\ SweepCalls + InFlight < max
    /\ notification_id \in sweeps[Len(sweeps)].listed
    /\ BeginFeedback("r1", notification_id, "dismissed", max)
    /\ sweeps' = [sweeps EXCEPT ![Len(sweeps)].raced = @ \cup {notification_id}]

\* no handler stands at a storage call
SweepQuiet == tick.pc = "sleep" /\ requests["r1"].pc = "idle"

NextSweep ==
    \/ Initialize(TRUE) /\ UNCHANGED <<stepvars, assistantvars>>
    \/ \E i \in DOMAIN SweepOrder, e \in EventTypes : SweepQuiet /\ TrackSweep(i, e)
         /\ UNCHANGED assistantvars
    \/ \E id \in SweepIds : SweepFeedback(id, MaxSweepEvents)
         /\ UNCHANGED <<last_activity, proactivevars, breakervars>>
    \/ RequestStep("r1") /\ UNCHANGED assistantvars
    \/ SweepBegin /\ UNCHANGED <<last_activity, proactivevars, breakervars>>
    \/ TickStep /\ UNCHANGED assistantvars
    \/ SweepQuiet /\ AdvanceSecondTo(MaxSweepSent)
         /\ UNCHANGED <<stepvars, assistantvars>>
    \/ SweepQuiet /\ AdvanceTimeTo(MaxSweepTime)
         /\ UNCHANGED <<stepvars, assistantvars>>

SpecSweep == InitSweep /\ [][NextSweep]_vars

----------------------------------------------------------------------------
(* The tracker under callers that may send an id again, one storage call   *)
(* at a time, no storage call raising                                      *)

\* the track_notification calls so far
SentCalls ==
    SumOver([nid \in NotificationIds |->
               Cardinality({i \in DOMAIN life[nid] : life[nid][i] = "sent"})],
            NotificationIds)

\* track_notification with any id, pending or not, at most max times
TrackAgain(notification_id, event_type, max) ==
    /\ SentCalls < max
    /\ TrackNotification(notification_id, event_type)
    /\ life' = [life EXCEPT ![notification_id] = Append(@, "sent")]
    /\ UNCHANGED <<requests, tick, writes, faults>>

NextResend ==
    \/ \E client \in BOOLEAN : Initialize(client)
         /\ UNCHANGED <<stepvars, assistantvars>>
    \/ \E nid \in NotificationIds, e \in EventTypes : TrackAgain(nid, e, MaxSent)
         /\ UNCHANGED assistantvars
    \/ \E id \in NotificationIds : BeginFeedback("r1", id, "dismissed", MaxStepEvents)
         /\ UNCHANGED assistantvars
    \/ RequestStep("r1") /\ UNCHANGED assistantvars
    \/ TickBegin /\ UNCHANGED assistantvars
    \/ TickStep /\ UNCHANGED assistantvars
    \/ AdvanceTime /\ UNCHANGED <<stepvars, assistantvars>>

SpecResend == Init /\ [][NextResend]_vars

----------------------------------------------------------------------------
(* Values the claims are stated with, written out from the specification *)

ValidKinds == {"ignored", "dismissed", "acknowledged", "engaged", "thanked"}

DeltaOf(kind) ==
    CASE kind = "ignored" -> -5
      [] kind = "dismissed" -> -10
      [] kind = "acknowledged" -> 5
      [] kind = "engaged" -> 10
      [] kind = "thanked" -> 20

Clamped(x) == IF x < 0 THEN 0 ELSE IF x > 100 THEN 100 ELSE x

ThresholdOf(urgency) ==
    CASE urgency = "high" -> 15
      [] urgency = "medium" -> 30
      [] urgency = "low" -> 50

\* 0.6 * b truncated to an integer: the integer q nearest to zero with
\* |q| <= |0.6 * b| < |q| + 1
SixTenthsTruncated(b) ==
    LET w == (6 * b) \div 10 IN
    CHOOSE q \in (w - 1) .. (w + 1) :
      IF b >= 0 THEN 10 * q <= 6 * b /\ 6 * b < 10 * (q + 1)
      ELSE 10 * (q - 1) < 6 * b /\ 6 * b <= 10 * q

ExpectedCooldown(s, b) ==
    IF s >= 70 THEN SixTenthsTruncated(b)
    ELSE IF s >= 50 THEN b
    ELSE IF s >= 30 THEN 2 * b
    ELSE 5 * b

----------------------------------------------------------------------------
(* Claims *)

\* C1: after any sequence of track_notification, record_feedback and sweep
\* operations, get_score(e) is within [0.0, 1.0] for every event type e, and so
\* is every stored score.
C1_ScoreBounds ==
    /\ \A e \in Keys : get_score(e) \in 0 .. 100
    /\ \A e \in DOMAIN scores : scores[e] \in 0 .. 100

\* six dismissals in a row: the sixth is clamped at 0
C1_Witness ==
    /\ redis
    /\ "doorbell" \in DOMAIN scores
    /\ scores["doorbell"] = 0
    /\ calls["doorbell"]["dismissed"] >= 6
    /\ calls["doorbell"]["thanked"] = 0

\* what the claim expects of a record_feedback(id, k) step: the score of the
\* resolved event type becomes clamp(old + delta(k)) and is returned as new_score
C2_Recorded(id, k) ==
    LET expected == Clamped(get_score(ResolveEventType(id)) + DeltaOf(k)) IN
    /\ ~RecordFeedbackResult(id, k).none
    /\ RecordFeedbackResult(id, k).new_score = expected
    /\ \E e \in Keys \cup {""} :
         e = ResolveEventType(id) /\ get_score(e)' = expected

\* C2 as claimed: a never recorded event type has score 0.5, and every
\* record_feedback(id, k) with a valid kind sets the score of the resolved event
\* type to clamp(old + delta(k), 0, 1) and returns it as new_score.
C2_Original ==
    [][/\ \A e \in Keys : e \notin DOMAIN scores => get_score(e) = 50
       /\ \A id \in Identifiers, k \in ValidKinds :
            RecordFeedback(id, k, MaxFeedback) => C2_Recorded(id, k)]_vars

\* C2 as amended: the same with a store client configured and a non-empty
\* event type; without a client no score changes and new_score is 0.5; with an
\* empty event type nothing is returned and no score changes.
C2_DeltaApplied ==
    [][/\ \A e \in Keys : e \notin DOMAIN scores => get_score(e) = 50
       /\ \A id \in Identifiers, k \in ValidKinds :
            /\ ResolveEventType(id) = "" => RecordFeedbackResult(id, k).none
            /\ RecordFeedback(id, k, MaxFeedback)
                 => IF ResolveEventType(id) = "" THEN UNCHANGED scores
                    ELSE IF redis THEN C2_Recorded(id, k)
                    ELSE /\ RecordFeedbackResult(id, k).new_score = 50
                         /\ UNCHANGED scores]_vars

\* thanked on a fresh event type gives 0.7
C2_Witness ==
    /\ redis
    /\ "doorbell" \in DOMAIN scores
    /\ scores["doorbell"] = 70
    /\ calls["doorbell"]["thanked"] = 1
    /\ CallsOn("doorbell") = 1

\* C3: record_feedback with a kind outside the five returns None (the endpoint
\* answers 400) and changes no score, ledger, counter or pending entry.
C3_InvalidKindRejected ==
    [][\A id \in Identifiers, k \in FeedbackTypes \ ValidKinds :
         /\ RecordFeedbackResult(id, k).none
         /\ submit_feedback(id, k).status = 400
         /\ RecordFeedback(id, k, MaxFeedback)
              => UNCHANGED <<pending, scores, history, counters>>]_vars

\* a pending notification with feedback already recorded on its event type: the
\* state in which an invalid kind for n1 is rejected
C3_Witness ==
    /\ Serving
    /\ redis
    /\ "n1" \in DOMAIN pending
    /\ CallsOn("doorbell") > 0

C4_Critical ==
    [allow |-> TRUE, reason |-> <<"critical_always_allowed">>, cooldown |-> 0]

\* C4: should_notify(e, "critical") allows with cooldown 0 and reason
\* critical_always_allowed for every event type and every score.
C4_CriticalAllowed ==
    /\ \A e \in Keys : should_notify(e, "critical") = C4_Critical
    /\ ret.op = "should_notify" /\ ret.urgency = "critical"
         => ret.value = C4_Critical

\* critical asked at score 0.0
C4_Witness ==
    /\ ret.op = "should_notify"
    /\ ret.urgency = "critical"
    /\ ret.score = 0
    /\ ret.value.allow

\* C5: should_notify denies at high exactly when s < 0.15, at medium exactly
\* when s < 0.30, at low exactly when s < 0.50, and otherwise allows with the
\* cooldown computed from s.
C5_Thresholds ==
    /\ \A e \in Keys, u \in {"high", "medium", "low"} :
         LET s == get_score(e)
             r == should_notify(e, u)
         IN /\ r.allow = (s >= ThresholdOf(u))
            /\ r.allow => r.cooldown = ExpectedCooldown(s, base_cooldown_seconds)
    /\ ret.op = "should_notify" /\ ret.urgency # "critical"
         => /\ ret.value.allow = (ret.score >= ThresholdOf(ret.urgency))
            /\ ret.value.allow
                 => ret.value.cooldown
                      = ExpectedCooldown(ret.score, base_cooldown_seconds)

\* at score 0.20 high allows
C5_Witness ==
    /\ ret.op = "should_notify"
    /\ ret.urgency = "high"
    /\ ret.score = 20
    /\ ret.value.allow
    /\ base_cooldown_seconds = BASE_COOLDOWN_SECONDS
    /\ ret.value.cooldown = 1500

\* at score 0.20 medium and low deny
C5_WitnessDenied ==
    /\ ret.op = "should_notify"
    /\ ret.urgency \in {"medium", "low"}
    /\ ret.score = 20
    /\ ~ret.value.allow

\* C6 as claimed: an event type with no recorded score is allowed at critical,
\* high and medium and is not allowed at low.
C6_Original ==
    \A e \in Keys :
      e \notin DOMAIN scores
        => /\ get_score(e) = 50
           /\ \A u \in {"critical", "high", "medium"} : should_notify(e, u).allow
           /\ ~should_notify(e, "low").allow

\* C6 as amended: an event type with no recorded score has score 0.5 and is
\* allowed at every urgency, low included, because 0.5 < 0.50 is false; at
\* high, medium and low the cooldown is the base.
C6_DefaultAllowed ==
    /\ \A e \in Keys :
         e \notin DOMAIN scores
           => /\ get_score(e) = 50
              /\ \A u \in Urgencies : should_notify(e, u).allow
              /\ \A u \in Urgencies \ {"critical"} :
                   should_notify(e, u).cooldown = base_cooldown_seconds
    /\ ret.op = "should_notify" /\ ret.event_type \notin DOMAIN scores
         => ret.score = 50 /\ ret.value.allow

\* low asked for an event type without a stored score, with a store client
C6_Witness ==
    /\ redis
    /\ scores = <<>>
    /\ ret.op = "should_notify"
    /\ ret.event_type = "doorbell"
    /\ ret.urgency = "low"
    /\ ret.score = 50
    /\ ret.value = [allow |-> TRUE, reason |-> <<"score_ok">>,
                    cooldown |-> base_cooldown_seconds]

\* exactly three dismissed and no other feedback on e
C7_ThreeDismissed(e) ==
    calls[e] = [k \in ValidKinds |-> IF k = "dismissed" THEN 3 ELSE 0]

\* C7 as claimed: medium allows for an event type never recorded; after
\* exactly three dismissed and no other feedback on e the score of e is 0.20
\* and medium denies.
C7_Original ==
    \A e \in Keys :
      /\ CallsOn(e) = 0 /\ Serving => should_notify(e, "medium").allow
      /\ C7_ThreeDismissed(e)
           => get_score(e) = 20 /\ ~should_notify(e, "medium").allow

\* C7 as amended: the same with a store client configured; without one the
\* score stays 0.5 and medium still allows.
C7_ThreeDismissals ==
    \A e \in Keys :
      /\ CallsOn(e) = 0 /\ Serving => should_notify(e, "medium").allow
      /\ C7_ThreeDismissed(e)
           => IF redis
              THEN get_score(e) = 20 /\ ~should_notify(e, "medium").allow
              ELSE get_score(e) = 50 /\ should_notify(e, "medium").allow

C7_Witness ==
    /\ redis
    /\ C7_ThreeDismissed("doorbell")
    /\ "doorbell" \in DOMAIN scores
    /\ scores["doorbell"] = 20
    /\ should_notify("doorbell", "medium")
         = [allow |-> FALSE, reason |-> <<"score_too_low", 20>>, cooldown |-> 0]

\* C8: the cooldown for score s and base b is 0.6*b truncated when s >= 0.70,
\* b when 0.50 <= s < 0.70, 2*b when 0.30 <= s < 0.50 and 5*b when s < 0.30,
\* whatever the rest of the state is.
C8_CooldownTable ==
    /\ \A s \in 0 .. 100 :
         calculate_cooldown(s) = ExpectedCooldown(s, base_cooldown_seconds)
    /\ ret.op = "calculate_cooldown"
         => ret.value = ExpectedCooldown(ret.score, base_cooldown_seconds)

\* base 4 at score 0.70: 2.4 truncated to 2
C8_Witness ==
    /\ ret.op = "calculate_cooldown"
    /\ ret.score = 70
    /\ base_cooldown_seconds = 4
    /\ ret.value = 2

\* C9: for a non-negative base and scores s1 < s2 in [0,1], the cooldown
\* computed for s1 is at least the cooldown computed for s2.  One score of the
\* pair is the score of doorbell, which ranges over all of [0,1] in steps of 0.01.
C9_Monotone ==
    base_cooldown_seconds >= 0
      => LET s1 == get_score("doorbell") IN
         \A s2 \in 0 .. 100 :
           /\ s1 < s2 => calculate_cooldown(s1) >= calculate_cooldown(s2)
           /\ s2 < s1 => calculate_cooldown(s2) >= calculate_cooldown(s1)

\* the cooldown computed at 0.29 with base 300 is 1500
C9_Witness ==
    /\ ret.op = "calculate_cooldown"
    /\ base_cooldown_seconds = BASE_COOLDOWN_SECONDS
    /\ ret.score = 29
    /\ ret.value = 1500

\* the pending notifications sent more than 120 seconds ago
C10_TimedOut == {nid \in DOMAIN pending : now - pending[nid].sent_at > 120}

\* a sweep removes exactly the timed out notifications from pending
C10_Removed ==
    /\ DOMAIN pending' = DOMAIN pending \ C10_TimedOut
    /\ \A nid \in DOMAIN pending' : pending'[nid] = pending[nid]

C10_Ignored(k) == [i \in 1 .. k |-> [type |-> "ignored", delta |-> -5]]

\* a sweep records each timed out notification once on its event type, and
\* nothing else
C10_Recorded ==
    \A e \in Keys :
      LET k == Cardinality({nid \in C10_TimedOut : pending[nid].event_type = e}) IN
      /\ history'[e] = C10_Ignored(k) \o history[e]
      /\ counters'[e] = [counters[e] EXCEPT !["ignored"] = @ + k]
      /\ get_score(e)' = Clamped(get_score(e) - 5 * k)
      /\ k = 0 => (e \in DOMAIN scores' <=> e \in DOMAIN scores)

C11_Lifecycle ==
    \A nid \in NotificationIds :
      /\ life[nid] \in {<<>>, <<"sent">>, <<"sent", "feedback">>,
                        <<"sent", "timeout">>}
      /\ nid \in DOMAIN pending <=> life[nid] = <<"sent">>

\* the sweep found n1 and n2 expired; while it awaits the store for n1, n2 was
\* resolved by record_feedback
C11_Witness ==
    /\ tick.pc \in StoreCalls
    /\ tick.expired = <<"n2">>
    /\ life["n1"] = <<"sent", "timeout">>
    /\ life["n2"] = <<"sent", "feedback">>

\* C12 as claimed: track_notification with an id that is already pending is
\* rejected (the registry and the counters stay as they are) or overwrites the
\* entry and logs a warning; the registry holds at most one entry for the id.
C12_Original ==
    [][\A nid \in NotificationIds, e \in EventTypes :
         TrackNotification(nid, e) /\ nid \in DOMAIN pending
           => /\ \/ UNCHANGED <<pending, counters>>
                 \/ /\ pending'[nid] = [event_type |-> e, sent_at |-> now]
                    /\ TrackNotificationLog(nid, e).level = "warning"
              /\ Cardinality({n \in DOMAIN pending' : n = nid}) <= 1]_vars

\* record_feedback(id, k) returns {event_type = id, kind, delta, new_score}
\* with the given new_score, and the endpoint answers 200
C13_Returned(id, k, new_score) ==
    LET result == [none |-> FALSE, event_type |-> id, feedback_type |-> k,
                   delta |-> DeltaOf(k), new_score |-> new_score]
    IN /\ RecordFeedbackResult(id, k) = result
       /\ submit_feedback(id, k).status = 200

\* a record_feedback(id, k) step updates score, ledger and counter k of the
\* event type named id
C13_Recorded(id, k) ==
    /\ get_score(id)' = Clamped(get_score(id) + DeltaOf(k))
    /\ history'[id] = <<[type |-> k, delta |-> DeltaOf(k)]>> \o history[id]
    /\ counters'[id] = [counters[id] EXCEPT ![k] = @ + 1]

\* a record_feedback(id, k) step, which is one more feedback event of kind k
\* on the event type named id
C13_Step(id, k) ==
    /\ calls'[id][k] = calls[id][k] + 1
    /\ RecordFeedback(id, k, MaxFeedback)

\* C13 as claimed: record_feedback(id, k) with a valid kind and an id that is
\* not pending updates the score, the ledger and the counter k of the event
\* type named id, leaves the pending registry unchanged and returns
\* {event_type = id, kind, delta, new_score}.
C13_Original ==
    [][\A id \in Identifiers \ {""}, k \in ValidKinds :
         Serving /\ id \notin DOMAIN pending
           => /\ C13_Returned(id, k, Clamped(get_score(id) + DeltaOf(k)))
              /\ C13_Step(id, k) => UNCHANGED pending /\ C13_Recorded(id, k)]_vars

\* C13 as amended: the same with a store client configured; without one the
\* call returns the dict with new_score 0.5, leaves the registry unchanged and
\* writes no score, ledger entry or counter.
C13_Fallback ==
    [][\A id \in Identifiers \ {""}, k \in ValidKinds :
         Serving /\ id \notin DOMAIN pending
           => IF redis
              THEN /\ C13_Returned(id, k, Clamped(get_score(id) + DeltaOf(k)))
                   /\ C13_Step(id, k) => UNCHANGED pending /\ C13_Recorded(id, k)
              ELSE /\ C13_Returned(id, k, 50)
                   /\ C13_Step(id, k)
                        => UNCHANGED <<pending, scores, history, counters>>]_vars

\* thanked recorded under the id n1, which was not pending
C13_Witness ==
    /\ redis
    /\ "n1" \in DOMAIN scores
    /\ scores["n1"] = 70
    /\ history["n1"] = <<[type |-> "thanked", delta |-> 20]>>
    /\ counters["n1"]["thanked"] = 1
    /\ counters["n1"]["total_sent"] = 0
    /\ pending = <<>>

\* the feedback events completed on e
C14_Completed(e) == CallsOn(e)

\* C14 as claimed, in what it says of the length: in every reachable state the
\* ledger of an event type holds at most 50 entries, and when n feedback events
\* on the event type have completed and none is under way it holds min(n, 50).
C14_Original ==
    \A e \in Keys :
      /\ Len(history[e]) <= 50
      /\ redis /\ InFlight = 0 /\ faults = 0
           => Len(history[e])
                = (IF C14_Completed(e) < 50 THEN C14_Completed(e) ELSE 50)

\* C15 as claimed: for every event type and every limit >= 0 the
\* recent-feedback read returns at most limit entries, they are the first
\* entries of the ledger, which is kept newest first, and the read leaves the
\* ledger as it is.
C15_Original ==
    [][\A e \in EventTypes, limit \in RecentLimits :
         GetRecentFeedback(e, limit)
           => /\ Len(ret'.value) <= limit
              /\ Len(ret'.value) <= Len(history[e])
              /\ \A i \in 1 .. Len(ret'.value) : ret'.value[i] = history[e][i]
              /\ UNCHANGED history]_vars

\* no counter decreases in a step
C16_Monotone ==
    \A e \in Keys, c \in CounterNames : counters'[e][c] >= counters[e][c]

\* in a step, the counter k of e grows by the feedback events of kind k that
\* complete on e, which is 0 or 1
C16_PerEvent ==
    \A e \in Keys, k \in ValidKinds :
      /\ counters'[e][k] - counters[e][k] = calls'[e][k] - calls[e][k]
      /\ calls'[e][k] - calls[e][k] \in {0, 1}

\* in a step, total_sent of e grows by 1 if the step is a track_notification
\* call for e and by 0 otherwise
C16_TotalSent ==
    \A e \in Keys :
      counters'[e]["total_sent"] - counters[e]["total_sent"]
        = IF \E nid \in NotificationIds : TrackFresh(nid, e) THEN 1 ELSE 0

\* C16 as claimed: counters never decrease; every completed feedback event of
\* kind k (explicit or timeout) increments the counter k of its event type by
\* exactly 1; total_sent is incremented by exactly 1 per track_notification
\* call and never by feedback.
C16_Original ==
    [][C16_Monotone /\ C16_PerEvent /\ C16_TotalSent]_vars

\* C16 as amended: the same with a store client configured; without one no
\* counter is kept and every counter stays 0.
C16_Counters ==
    [][/\ C16_Monotone
       /\ IF redis THEN C16_PerEvent /\ C16_TotalSent
          ELSE UNCHANGED counters
                 /\ \A e \in Keys, c \in CounterNames : counters[e][c] = 0]_vars

\* two notifications sent, one resolved by a dismissal, one by the timeout
C16_Witness ==
    /\ redis
    /\ counters["doorbell"]
         = [c \in CounterNames |->
              CASE c = "total_sent" -> 2
                [] c \in {"dismissed", "ignored"} -> 1
                [] OTHER -> 0]
    /\ life["n1"] = <<"sent", "feedback">>
    /\ life["n2"] = <<"sent", "timeout">>
    /\ InFlight = 0

\* C17 as claimed: for every feedback event the score update and the ledger
\* append both take effect or neither does, also when a storage call fails or
\* the sweep task is cancelled between the two: whenever no feedback event is
\* under way, every event type has had as many score writes as ledger appends.
C17_Original ==
    InFlight = 0 => \A e \in Keys : writes[e].set = writes[e].lpush

\* what the score of e is after its completed feedback events, all of them
\* dismissals and timeouts, applied one after the other with clamping
C18_Serial(e) ==
    Clamped(50 - 10 * calls[e]["dismissed"] - 5 * calls[e]["ignored"])

\* C18 as claimed: score updates to one event type are serialized, so that when
\* every feedback event has run to completion (none under way, none failed,
\* none cancelled) the score of each event type is the result of applying the
\* deltas of its own events one after the other with clamping.
C18_Original ==
    redis /\ InFlight = 0 /\ faults = 0 /\ tick.pc # "ended"
      => \A e \in Keys : get_score(e) = C18_Serial(e)

\* C19 as claimed: get_score and should_notify never raise to the caller,
\* also when a storage call fails; without a client get_score returns 0.5 and
\* should_notify answers from score 0.5, which is allowed at every urgency.
C19_Original ==
    ret.op \in {"get_score", "should_notify"}
      => /\ "raised" \notin DOMAIN ret
         /\ ~redis /\ ret.op = "get_score" => ret.value = 50
         /\ ~redis /\ ret.op = "should_notify"
              => /\ ret.score = 50
                 /\ ret.value.allow
                 /\ ret.value.cooldown
                      = (IF ret.urgency = "critical" THEN 0
                         ELSE base_cooldown_seconds)

\* the loop of the task is alive and asleep
C20_Asleep ==
    /\ tick.pc = "sleep"
    /\ timeout_task = "sleeping"
    /\ running

\* the step in which pop raises KeyError: the id the sweep comes to next was
\* resolved by record_feedback since the sweep listed it
C20_KeyError ==
    /\ tick.pc = "hincrby"
    /\ tick.expired # <<>>
    /\ Head(tick.expired) \notin DOMAIN pending
    /\ TickStep

\* C20: an error raised inside a sweep tick, by a storage call or by the pop of
\* an id that is gone, does not end the auto-timeout loop: the loop sleeps a
\* new interval, the next tick can start whenever the interval of a live loop
\* has passed, and the task ends only by stop().
C20_LoopSurvives ==
    [][/\ TickFault(MaxFaults) \/ C20_KeyError => C20_Asleep' /\ slept' = 0
       /\ C20_Asleep /\ slept >= 30 => ENABLED TickBegin
       /\ tick.pc # "ended" /\ tick'.pc = "ended" => StopTask
       /\ tick.pc = "ended" <=> timeout_task = "cancelled"]_vars

\* a tick is under way after a storage call of an earlier tick raised
C20_Witness ==
    /\ faults = 1
    /\ tick.pc \in StoreCalls
    /\ \A r \in Requests : requests[r].pc = "idle"
    /\ timeout_task = "sleeping"


\* C21: once stop() has returned, the sweep task has ended: it stands at no
\* await, no tick can begin or go on, and nothing is taken out of pending or
\* recorded as "ignored" from then on, however much time passes.
C21_Terminated ==
    [][/\ timeout_task' = "cancelled" => tick'.pc = "ended" /\ ~running'
       /\ timeout_task = "cancelled" =>
            /\ tick' = tick
            /\ pending' = pending
            /\ life' = life
            /\ calls' = calls
            /\ ~ENABLED TickBegin
            /\ ~ENABLED TickStep]_vars

\* after stop() a whole sleep interval has passed and a notification older than
\* the timeout is still pending
C21_Witness ==
    /\ timeout_task = "cancelled"
    /\ slept >= SWEEP_SLEEP_SECONDS
    /\ Expired(pending, now) # {}


\* the rules of the classifier in their order: the signal and its activity
C22_Rules ==
    << [activity |-> "away",          signal |-> "away"],
       [activity |-> "sleeping",      signal |-> "sleeping"],
       [activity |-> "in_call",       signal |-> "in_call"],
       [activity |-> "watching", signal |-> "media_playing"],
       [activity |-> "guests",        signal |-> "guests"],
       [activity |-> "focused",     signal |-> "pc_active"] >>

\* the activity of the first rule whose signal is true, relaxing without one
C22_FirstMatch(signals) ==
    LET hits == {i \in DOMAIN C22_Rules : signals[C22_Rules[i].signal]}
    IN  IF hits = {} THEN "relaxing"
        ELSE C22_Rules[CHOOSE i \in hits : \A j \in hits : i <= j].activity

C22_Confidence(activity, signals) ==
    CASE activity = "away"     -> 95
      [] activity = "sleeping" -> IF signals.lights_off THEN 90 ELSE 70
      [] activity = "in_call"  -> 95
      [] activity = "watching" -> 85
      [] activity = "guests"   -> 80
      [] activity = "focused"  -> 70
      [] activity = "relaxing" -> 60

C22_Expected(signals) ==
    [activity |-> C22_FirstMatch(signals),
     confidence |-> C22_Confidence(C22_FirstMatch(signals), signals)]

\* C22: for every combination of the seven signals the classifier answers the
\* first matching rule of away, sleeping, in_call, watching, guests, focused,
\* relaxing with that rule's confidence, alone and inside detect_activity; with
\* sleeping and in_call both true (and nobody away) the answer is sleeping.
C22_RuleOrder ==
    /\ ret.op = "_classify" =>
         /\ ret.value = C22_Expected(ret.signals)
         /\ ret.signals.sleeping /\ ret.signals.in_call /\ ~ret.signals.away =>
              ret.value.activity = "sleeping"
    /\ ret.op = "detect_activity" /\ ~ret.empty =>
         /\ ret.value.activity = C22_Expected(ret.value.signals).activity
         /\ ret.value.confidence = C22_Expected(ret.value.signals).confidence

\* the classifier was asked with sleeping and in_call both true
C22_Witness ==
    /\ ret.op = "_classify"
    /\ ret.signals.sleeping /\ ret.signals.in_call /\ ~ret.signals.away
    /\ ret.value = [activity |-> "sleeping", confidence |-> 70]

\* C23: with an empty snapshot detect_activity answers the activity of the last
\* successful classification (relaxing when there was none) with confidence
\* 0.3 and the flag ha_unavailable, and leaves the last-known activity as it
\* is; a successful classification is what sets the last-known activity.
C23_Unavailable ==
    [][/\ ret'.op = "detect_activity" /\ ret'.empty =>
            /\ ret'.value = [signals |-> [ha_unavailable |-> TRUE],
                             activity |-> last_activity,
                             confidence |-> 30]
            /\ last_activity' = last_activity
       /\ ret'.op = "detect_activity" /\ ~ret'.empty =>
            last_activity' = ret'.value.activity
       /\ ret'.op = "_classify" => last_activity' = last_activity
       /\ ret.op = "none" => last_activity = "relaxing"]_vars

\* no sensor data after the user was found asleep
C23_Witness ==
    /\ ret.op = "detect_activity"
    /\ ret.empty
    /\ ret.value.activity = "sleeping"
    /\ ret.value.confidence = 30
    /\ last_activity = "sleeping"


\* pairs of the matrix the specification spells out
C24_Examples ==
    /\ get_delivery_method("sleeping", "critical") = "tts_loud"
    /\ get_delivery_method("sleeping", "medium") = "suppress"
    /\ get_delivery_method("relaxing", "low") = "tts_quiet"
    /\ get_delivery_method("away", "critical") = "tts_loud"

\* C24: get_delivery_method is total: for each of the seven activities and the
\* four urgencies it answers the cell of the silence matrix, one of the four
\* delivery methods; for an activity outside the matrix it answers the
\* relaxing row at that urgency; should_deliver answers the same cell for the
\* detected activity and flags suppress exactly when the cell is suppress.
C24_Total ==
    /\ C24_Examples
    /\ ret.op = "get_delivery_method" /\ ret.urgency \in Urgencies =>
         /\ ret.value \in Deliveries
         /\ ret.activity \in Activities =>
              ret.value = SILENCE_MATRIX[ret.activity][ret.urgency]
         /\ ret.activity \notin Activities =>
              ret.value = SILENCE_MATRIX["relaxing"][ret.urgency]
    /\ ret.op = "should_deliver" /\ ret.urgency \in Urgencies =>
         /\ ret.value.activity \in Activities
         /\ ret.value.delivery = SILENCE_MATRIX[ret.value.activity][ret.urgency]
         /\ ret.value.suppress <=> ret.value.delivery = "suppress"

\* an activity outside the matrix was looked up at urgency low
C24_Witness ==
    /\ ret.op = "get_delivery_method"
    /\ ret.activity = "cooking"
    /\ ret.urgency = "low"
    /\ ret.value = "tts_quiet"

\* tts_loud > tts_quiet > led_blink > suppress
C30_Loudness(delivery) ==
    CASE delivery = "tts_loud"  -> 3
      [] delivery = "tts_quiet" -> 2
      [] delivery = "led_blink" -> 1
      [] delivery = "suppress"  -> 0

\* C30 (as stated): critical is never suppressed, the delivery never gets
\* louder from critical to high to medium to low, and an urgency that is none
\* of the four is delivered no louder than low for the same activity.
C30_Original ==
    /\ \A a \in Activities :
         /\ SILENCE_MATRIX[a]["critical"] # "suppress"
         /\ C30_Loudness(SILENCE_MATRIX[a]["critical"])
              >= C30_Loudness(SILENCE_MATRIX[a]["high"])
         /\ C30_Loudness(SILENCE_MATRIX[a]["high"])
              >= C30_Loudness(SILENCE_MATRIX[a]["medium"])
         /\ C30_Loudness(SILENCE_MATRIX[a]["medium"])
              >= C30_Loudness(SILENCE_MATRIX[a]["low"])
    /\ ret.op = "get_delivery_method" /\ ret.urgency \notin Urgencies =>
         C30_Loudness(ret.value)
           <= C30_Loudness(get_delivery_method(ret.activity, "low"))
    /\ ret.op = "should_deliver" /\ ret.urgency \notin Urgencies =>
         C30_Loudness(ret.value.delivery)
           <= C30_Loudness(get_delivery_method(ret.value.activity, "low"))


\* the message broadcast in this step
C25_Dispatched == emitted'[Len(emitted')]

\* C25 (as stated): every proactive message that is dispatched was allowed by
\* should_notify and is registered in the pending tracker at dispatch.
C25_Original ==
    [][Len(emitted') > Len(emitted) =>
         /\ should_notify(C25_Dispatched.event_type, C25_Dispatched.urgency).allow
         /\ \E nid \in DOMAIN pending' :
              /\ pending'[nid] = [event_type |-> C25_Dispatched.event_type,
                                  sent_at |-> now]
              /\ nid \notin DOMAIN pending \/ pending[nid] # pending'[nid]]_vars


\* what is_available would answer, without the write of the read
C26_Available ==
    \/ _state \in {"closed", "half_open"}
    \/ monotonic - _last_failure_time >= recovery_timeout

\* C26: a breaker starts closed and available; it is closed and available
\* while fewer than failure_threshold failures were counted since the last
\* success; the failure that brings the count to the threshold leaves it open
\* and unavailable; record_success leaves the count at zero and the breaker
\* closed.
C26_Breaker ==
    [][/\ _failure_count < failure_threshold =>
            _state = "closed" /\ C26_Available
       /\ ret'.op = "CircuitBreaker" =>
            _state' = "closed" /\ C26_Available' /\ _failure_count' = 0
       /\ _failure_count' = _failure_count + 1 =>
            /\ _failure_count' < failure_threshold =>
                 _state' = "closed" /\ C26_Available'
            /\ _failure_count' >= failure_threshold =>
                 _state' = "open" /\ ~C26_Available'
       /\ ret'.op = "record_success" =>
            _failure_count' = 0 /\ _state' = "closed" /\ C26_Available']_vars

\* the third failure has opened a breaker with threshold 3
C26_Witness ==
    /\ ret.op = "record_failure"
    /\ failure_threshold = 3
    /\ _failure_count = 3
    /\ _state = "open"
    /\ ~C26_Available


\* the retry_async call has ended
C27_Done == retry.pc = "idle" /\ ret.op = "retry_async"

\* call i of func raised a type that is retried
C27_Failed(i) == attempts[i] \in RetryExceptions

\* the step in which retry_async is called
C27_Begin == retry.pc = "idle" /\ ret'.op = "retry_async" /\ monotonic' = monotonic

\* C27: retry_async calls func at most max_retries times; it returns the result
\* of the first call that succeeds and calls no more; when all max_retries
\* calls fail it raises the exception of the last one; an exception of a type
\* that is not retried ends the call at once and propagates; called with a
\* breaker that is open it raises ConnectionError without calling func.
C27_Retry ==
    [][/\ retry.pc # "idle" =>
            /\ Len(attempts) <= retry.max_retries
            /\ \A i \in DOMAIN attempts : C27_Failed(i)
            /\ retry.pc = "call" => Len(attempts) < retry.max_retries
       /\ C27_Done =>
            /\ Len(attempts) <= ret.max_retries
            /\ \A i \in 1 .. Len(attempts) - 1 : C27_Failed(i)
            /\ ret.outcome = <<"returned", "ok">> <=>
                 attempts # <<>> /\ attempts[Len(attempts)] = "ok"
            /\ attempts # <<>> /\ C27_Failed(Len(attempts)) =>
                 /\ Len(attempts) = ret.max_retries
                 /\ ret.outcome = <<"raised", attempts[Len(attempts)], "func">>
            /\ attempts # <<>> /\ attempts[Len(attempts)] = "ValueError" =>
                 ret.outcome = <<"raised", "ValueError", "func">>
            /\ attempts = <<>> <=>
                 ret.outcome = <<"raised", "ConnectionError", "retry_async">>
       /\ C27_Begin /\ ret'.circuit_breaker /\ ~C26_Available =>
            /\ retry'.pc = "idle"
            /\ attempts' = <<>>
            /\ ret'.outcome = <<"raised", "ConnectionError", "retry_async">>]_vars

\* both calls of a retry_async with max_retries 2 and a breaker failed, with
\* different exceptions, and the second one was raised
C27_Witness ==
    /\ C27_Done
    /\ ret.max_retries = 2
    /\ ret.circuit_breaker
    /\ attempts = <<"ConnectionError", "TimeoutError">>
    /\ ret.outcome = <<"raised", "TimeoutError", "func">>

\* retry_async was refused by an open breaker
C27_WitnessBlocked ==
    /\ C27_Done
    /\ _state = "open"
    /\ attempts = <<>>


\* the tick after tick k has begun and ended
C28_FollowingEnded(k) ==
    \/ Len(sweeps) > k + 1
    \/ Len(sweeps) = k + 1 /\ tick.pc = "sleep"

\* the sweep never resolved the id
C28_NoTimeout(id) == \A i \in DOMAIN life[id] : life[id][i] # "timeout"

\* a notification for which explicit feedback arrived while the tick that
\* listed it was under way is resolved by that feedback only
C28_OnlyExplicit ==
    \A k \in DOMAIN sweeps : \A id \in sweeps[k].raced : C28_NoTimeout(id)

\* after such a tick, every other notification it listed that got no explicit
\* feedback is resolved as ignored once the following tick has ended
C28_Others ==
    \A k \in DOMAIN sweeps :
      sweeps[k].raced # {} /\ C28_FollowingEnded(k) =>
        \A id \in sweeps[k].listed \ sweeps[k].raced :
          life[id] # <<"sent", "feedback">> => life[id] = <<"sent", "timeout">>

\* C28: when explicit feedback for an expired notification arrives while a
\* sweep tick is resolving expired notifications, that notification is resolved
\* by the explicit feedback only, and every other notification that was expired
\* when the tick began is resolved as ignored exactly once, by the end of the
\* following tick at the latest.
C28_Original == C28_OnlyExplicit /\ C28_Others


\* the pending notifications of the event type
C29_Pending(e) ==
    Cardinality({nid \in DOMAIN pending : pending[nid].event_type = e})

\* how often the tracked notification was resolved, by feedback or by the sweep
C29_ResolvedOf(nid) ==
    Cardinality({i \in DOMAIN life[nid] : life[nid][i] \in {"feedback", "timeout"}})

\* the resolutions of tracked notifications; every id is sent with the one
\* event type of the model
C29_Resolved == SumOver([nid \in NotificationIds |-> C29_ResolvedOf(nid)],
                        NotificationIds)

\* C29: with a client, when no tracker operation is in progress and no storage
\* call has failed, total_sent of an event type is the number of its pending
\* notifications plus the number of resolutions of tracked notifications of
\* the type, also after track_notification was called twice with one id.
C29_Original ==
    redis /\ InFlight = 0 /\ faults = 0 =>
      \A e \in EventTypes :
        counters[e]["total_sent"] = C29_Pending(e) + C29_Resolved

====
